---- MODULE Spec2Model ----
(***************************************************************************)
(* A model of sca-cli (joshdotcc/sca-cli): the manifest detector, the      *)
(* per-ecosystem parsers, the Maven aggregator and analyzeRepository.      *)
(*                                                                         *)
(* Strings are sequences of one-character strings so that the byte-wise    *)
(* comparisons of sort.Strings, strings.HasPrefix, strings.Index and       *)
(* strings.Fields are computed rather than assumed.  A text file is the    *)
(* sequence of its lines (strings.Split(text, "\n")).                      *)
(***************************************************************************)
EXTENDS Integers, Sequences, FiniteSets, TLC

(***************************************************************************)
(* Bounds of the model.                                                    *)
(***************************************************************************)
\* the longest go.mod, in lines
MaxLines == 4

\* the most <dependency> blocks in the pom.xml handed to parsePomDeps
MaxDeps == 2

\* the most files in the checkout aggregatePomData walks
MaxPoms == 3

\* the most files in the checkout main analyses
MaxFiles == 3

VARIABLES
    content,    \* parser specifications: the manifest handed to the parser
    deps,       \* parser specifications: the slice the parser returned
    ppc,        \* parser specifications: "call" before, "ret" after the call
    tree,       \* the checkout: relative path -> manifest file
    allProps,   \* aggregatePomData: the property table
    allDM,      \* aggregatePomData: the dependency-management table
    walked,     \* aggregatePomData: the entries of the walk visited so far
    repoURL,    \* analyzeRepository: its repoURL argument
    pc,         \* the step of main / analyzeRepository that runs next
    managers,   \* detectPackageManagers: ecosystem tag -> paths found
    todo,       \* analyzeRepository: the tags `range managers` has yet to yield
    analysis,   \* analyzeRepository: the Analysis under construction
    calls,      \* the parser and aggregator calls made so far, in order
    run,        \* which run over the checkout this is: 1 or 2
    first,      \* the Analysis the first run returned
    args,       \* main: os.Args[1:]
    targetDir,  \* main: the -dir flag
    skipCloneFlag, \* main: the -skip-clone flag
    outputFmt,  \* main: the -output flag
    outputFile, \* main: the -o flag
    dirs,       \* the paths that exist on the file system
    events      \* the removals and clones main has made, in order

parserVars == <<content, deps, ppc>>

aggVars == <<allProps, allDM, walked>>

mainVars == <<repoURL, pc, managers, todo, analysis, calls, run, first>>

cliVars == <<args, targetDir, skipCloneFlag, outputFmt, outputFile, dirs, events>>

vars == <<content, deps, ppc, tree, allProps, allDM, walked,
          repoURL, pc, managers, todo, analysis, calls, run, first,
          args, targetDir, skipCloneFlag, outputFmt, outputFile, dirs, events>>

\* every sequence over S of length at most n
SeqUpTo(S, n) == UNION {[1..k -> S] : k \in 0..n}

(***************************************************************************)
(* Characters and byte order.                                              *)
(***************************************************************************)
\* the characters manifests are written in, in byte order: the digits, the
\* upper-case and the lower-case letters are contiguous runs of ASCII
Digits == <<"0", "1", "2", "3", "4", "5", "6", "7", "8", "9">>

Upper ==
    <<"A", "B", "C", "D", "E", "F", "G", "H", "I", "J", "K", "L", "M", "N",
      "O", "P", "Q", "R", "S", "T", "U", "V", "W", "X", "Y", "Z">>

Lower ==
    <<"a", "b", "c", "d", "e", "f", "g", "h", "i", "j", "k", "l", "m", "n",
      "o", "p", "q", "r", "s", "t", "u", "v", "w", "x", "y", "z">>

\* the punctuation manifests use, each with its byte value
Punct ==
    <<<<" ", 32>>, <<"\"", 34>>, <<"$", 36>>, <<"'", 39>>, <<"(", 40>>,
      <<")", 41>>, <<",", 44>>, <<"-", 45>>,
      <<".", 46>>, <<"/", 47>>, <<":", 58>>, <<"<", 60>>, <<"=", 61>>,
      <<">", 62>>, <<"@", 64>>, <<"^", 94>>, <<"_", 95>>, <<"{", 123>>,
      <<"}", 125>>, <<"~", 126>>>>

Chars ==
    {Digits[i] : i \in 1..10} \cup {Upper[i] : i \in 1..26}
        \cup {Lower[i] : i \in 1..26} \cup {Punct[i][1] : i \in 1..Len(Punct)}

\* the byte value of a character
Code ==
    [c \in Chars |->
        IF \E i \in 1..10 : Digits[i] = c
        THEN 47 + (CHOOSE i \in 1..10 : Digits[i] = c)
        ELSE IF \E i \in 1..26 : Upper[i] = c
        THEN 64 + (CHOOSE i \in 1..26 : Upper[i] = c)
        ELSE IF \E i \in 1..26 : Lower[i] = c
        THEN 96 + (CHOOSE i \in 1..26 : Lower[i] = c)
        ELSE Punct[CHOOSE i \in 1..Len(Punct) : Punct[i][1] = c][2]]

\* strings.ToLower on one character
LowerChar(c) ==
    IF \E i \in 1..26 : Upper[i] = c
    THEN Lower[CHOOSE i \in 1..26 : Upper[i] = c]
    ELSE c

\* strings.ToLower
ToLower(s) == [i \in 1..Len(s) |-> LowerChar(s[i])]

Min(S) == CHOOSE x \in S : \A y \in S : x <= y

\* s < t in Go's string order (byte-wise lexicographic)
StrLess(s, t) ==
    LET n == IF Len(s) < Len(t) THEN Len(s) ELSE Len(t)
        d == {i \in 1..n : s[i] # t[i]}
    IN  IF d = {} THEN Len(s) < Len(t)
        ELSE LET i == Min(d) IN Code[s[i]] < Code[t[i]]

\* strings.HasPrefix
HasPrefix(s, p) == Len(s) >= Len(p) /\ SubSeq(s, 1, Len(p)) = p

\* strings.HasSuffix
HasSuffix(s, p) == Len(s) >= Len(p) /\ SubSeq(s, Len(s) - Len(p) + 1, Len(s)) = p

\* strings.Index, 1-based; 0 when sub does not occur (Go: -1)
Index(s, sub) ==
    LET at == {i \in 1..(Len(s) - Len(sub) + 1) : SubSeq(s, i, i + Len(sub) - 1) = sub}
    IN  IF at = {} THEN 0 ELSE Min(at)

\* strings.Contains
Contains(s, sub) == Index(s, sub) # 0

IsSpace(c) == c = " "

\* strings.TrimSpace
TrimSpace(s) ==
    LET ink == {i \in 1..Len(s) : ~IsSpace(s[i])}
    IN  IF ink = {} THEN <<>>
        ELSE SubSeq(s, Min(ink), CHOOSE j \in ink : \A k \in ink : k <= j)

\* strings.TrimPrefix
TrimPrefix(s, p) == IF HasPrefix(s, p) THEN SubSeq(s, Len(p) + 1, Len(s)) ELSE s

RECURSIVE Fields(_)
\* strings.Fields: the maximal runs of non-space characters
Fields(s) ==
    LET ink == {i \in 1..Len(s) : ~IsSpace(s[i])}
    IN  IF ink = {} THEN <<>>
        ELSE LET b == Min(ink)
                 sp == {i \in b..Len(s) : IsSpace(s[i])}
                 e == IF sp = {} THEN Len(s) ELSE Min(sp) - 1
             IN  <<SubSeq(s, b, e)>> \o Fields(SubSeq(s, e + 1, Len(s)))

RECURSIVE InsertSorted(_, _)
InsertSorted(list, s) ==
    IF list = <<>> THEN <<s>>
    ELSE IF StrLess(s, Head(list)) THEN <<s>> \o list
    ELSE <<Head(list)>> \o InsertSorted(Tail(list), s)

RECURSIVE SortStrings(_)
\* sort.Strings
SortStrings(list) ==
    IF list = <<>> THEN <<>>
    ELSE InsertSorted(SortStrings(Tail(list)), Head(list))

RECURSIVE SetToSeq(_)
\* the keys of a Go map in one of its iteration orders
SetToSeq(S) ==
    IF S = {} THEN <<>>
    ELSE LET x == CHOOSE y \in S : TRUE IN <<x>> \o SetToSeq(S \ {x})

(***************************************************************************)
(* Go slices: a nil slice and an empty slice are different values.         *)
(***************************************************************************)
Nil == [nil |-> TRUE, items |-> <<>>]

Slice(list) == [nil |-> FALSE, items |-> list]

\* a mutation of setToSortedSlice that forgets sort.Strings and returns the
\* keys in descending order, one of the orders a map iteration may produce
setToSortedSliceUnsorted(s) ==
    LET up == SortStrings(SetToSeq(s))
    IN  Slice([i \in 1..Len(up) |-> up[Len(up) + 1 - i]])

\* setToSortedSlice, parsers.go
setToSortedSlice(s) == Slice(SortStrings(SetToSeq(s)))

(***************************************************************************)
(* Manifest files.  err: os.ReadFile fails.  lines: the text of a          *)
(* line-oriented manifest.  xml: the tags and text runs of a pom.xml.      *)
(* json: the document of a package.json as encoding/json decodes it.       *)
(* decl: the declarations of the manifests whose parsers are not part of   *)
(* the source at hand (Cargo.toml, Gemfile, Package.swift, setup.py,       *)
(* requirements.txt).  walkErr: filepath.Walk hands the entry to its       *)
(* callback with an error.                                                 *)
(***************************************************************************)
NoJson == [valid |-> FALSE, dependencies |-> [object |-> FALSE, members |-> <<>>],
           devDependencies |-> [object |-> FALSE, members |-> <<>>]]

Blank == [err |-> FALSE, walkErr |-> FALSE, lines |-> <<>>, xml |-> <<>>, json |-> NoJson, decl |-> {}]

\* a manifest that os.ReadFile cannot read
Unreadable == [Blank EXCEPT !.err = TRUE]

\* an entry the walk reports with an error
WalkError == [Blank EXCEPT !.walkErr = TRUE]

\* a readable text manifest
Text(lines) == [Blank EXCEPT !.lines = lines]

\* a readable pom.xml
Xml(tokens) == [Blank EXCEPT !.xml = tokens]

\* a readable package.json
Json(doc) == [Blank EXCEPT !.json = doc]

\* a readable manifest of an ecosystem parsed outside the source at hand
Decl(d) == [Blank EXCEPT !.decl = d]

(***************************************************************************)
(* The values of the variables a specification does not use.               *)
(***************************************************************************)
EmptyAnalysis == [Repo |-> <<>>, Type |-> Nil, Dependencies |-> <<>>, Files |-> Nil]

ParserIdle == content = Blank /\ deps = Nil /\ ppc = "idle"

AggIdle == allProps = <<>> /\ allDM = <<>> /\ walked = 0

CliIdle ==
    /\ args = <<>> /\ targetDir = <<>> /\ skipCloneFlag = FALSE
    /\ outputFmt = <<>> /\ outputFile = <<>> /\ dirs = {} /\ events = <<>>

MainIdle ==
    /\ repoURL = <<>> /\ pc = "idle" /\ managers = <<>> /\ todo = {}
    /\ analysis = EmptyAnalysis /\ calls = <<>> /\ run = 0 /\ first = EmptyAnalysis

(***************************************************************************)
(* String constants of the source.                                         *)
(***************************************************************************)
sRequire == <<"r", "e", "q", "u", "i", "r", "e">>

sReplace == <<"r", "e", "p", "l", "a", "c", "e">>

sArrow == <<"=", ">">>

sSlashes == <<"/", "/">>

\* fmt.Sprintf("%s@%s", name, ver)
NameAtVersion(name, ver) == name \o <<"@">> \o ver

\* fmt.Sprintf("%s => %s", from, to)
FromTo(from, to) == from \o <<" ", "=", ">", " ">> \o to

(***************************************************************************)
(* parseGoModDeps, parsers.go: a line-based state machine over go.mod.     *)
(***************************************************************************)
\* a mutation of goModStrip that does not strip // comments
goModStripKeepComments(raw) == TrimSpace(raw)

\* the text of a line once blank lines and // comments are dropped; <<>>
\* stands for the two `continue`s of lines 83-91
goModStrip(raw) ==
    LET ln == TrimSpace(raw)
        idx == Index(ln, sSlashes)
    IN  IF ln = <<>> THEN <<>>
        ELSE IF idx # 0 THEN TrimSpace(SubSeq(ln, 1, idx - 1))
        ELSE ln

\* the test that opens a require block
goModBlockStart(ln) ==
    HasPrefix(ln, sRequire \o <<" ", "(">>) \/ ln = sRequire \o <<"(">>

\* a single-line `require module version`
goModRequire(ln) ==
    LET rest == TrimSpace(TrimPrefix(ln, sRequire))
        parts == Fields(rest)
    IN  IF Len(parts) >= 2 THEN {NameAtVersion(parts[1], parts[2])} ELSE {}

\* a mutation of goModReplace that knows the form with "=>" only
goModReplaceArrowOnly(ln) ==
    LET rest == TrimSpace(TrimPrefix(ln, sReplace))
        at == Index(rest, sArrow)
    IN  IF at # 0
        THEN LET left == Fields(TrimSpace(SubSeq(rest, 1, at - 1)))
                 right == Fields(TrimSpace(SubSeq(rest, at + 2, Len(rest))))
             IN  IF Len(left) > 0 /\ Len(right) > 0
                 THEN {FromTo(left[1], right[1])}
                 ELSE {}
        ELSE {}

\* a replace directive, `replace old => new` or `replace old new`
goModReplace(ln) ==
    LET rest == TrimSpace(TrimPrefix(ln, sReplace))
        at == Index(rest, sArrow)
    IN  IF at # 0
        THEN LET left == Fields(TrimSpace(SubSeq(rest, 1, at - 1)))
                 right == Fields(TrimSpace(SubSeq(rest, at + 2, Len(rest))))
             IN  IF Len(left) > 0 /\ Len(right) > 0
                 THEN {FromTo(left[1], right[1])}
                 ELSE {}
        ELSE LET parts == Fields(rest)
             IN  IF Len(parts) >= 2 THEN {FromTo(parts[1], parts[2])} ELSE {}

\* a mutation of goModLine in which a line starting with ")" does not
\* close the block
goModLineNeverCloses(st, raw) ==
    LET ln == goModStrip(raw)
    IN  IF ln = <<>> THEN st
        ELSE IF goModBlockStart(ln) THEN [st EXCEPT !.inBlock = TRUE]
        ELSE IF st.inBlock
        THEN IF HasPrefix(ln, <<")">>) THEN st
             ELSE LET parts == Fields(ln)
                  IN  IF Len(parts) >= 2
                      THEN [st EXCEPT !.deps = @ \cup {NameAtVersion(parts[1], parts[2])}]
                      ELSE st
        ELSE IF HasPrefix(ln, sRequire \o <<" ">>)
        THEN [st EXCEPT !.deps = @ \cup goModRequire(ln)]
        ELSE IF HasPrefix(ln, sReplace \o <<" ">>)
        THEN [st EXCEPT !.deps = @ \cup goModReplace(ln)]
        ELSE st

\* one iteration of the loop over the lines: st is (inBlock, deps)
goModLine(st, raw) ==
    LET ln == goModStrip(raw)
    IN  IF ln = <<>> THEN st
        ELSE IF goModBlockStart(ln) THEN [st EXCEPT !.inBlock = TRUE]
        ELSE IF st.inBlock
        THEN IF HasPrefix(ln, <<")">>) THEN [st EXCEPT !.inBlock = FALSE]
             ELSE LET parts == Fields(ln)
                  IN  IF Len(parts) >= 2
                      THEN [st EXCEPT !.deps = @ \cup {NameAtVersion(parts[1], parts[2])}]
                      ELSE st
        ELSE IF HasPrefix(ln, sRequire \o <<" ">>)
        THEN [st EXCEPT !.deps = @ \cup goModRequire(ln)]
        ELSE IF HasPrefix(ln, sReplace \o <<" ">>)
        THEN [st EXCEPT !.deps = @ \cup goModReplace(ln)]
        ELSE st

RECURSIVE goModScan(_, _)
\* the loop over the lines, from the state st
goModScan(st, lines) ==
    IF lines = <<>> THEN st
    ELSE goModScan(goModLine(st, Head(lines)), Tail(lines))

parseGoModDeps(file) ==
    IF file.err THEN Nil
    ELSE setToSortedSlice(goModScan([inBlock |-> FALSE, deps |-> {}], file.lines).deps)

(***************************************************************************)
(* SpecGoMod: parseGoModDeps applied to every go.mod of at most MaxLines   *)
(* lines drawn from GoLines.                                               *)
(***************************************************************************)
lnBlank == <<>>

lnComment == <<"/", "/", " ", "c">>

lnOpen == <<"r", "e", "q", "u", "i", "r", "e", " ", "(">>

lnClose == <<")">>

lnA1 == <<" ", "a", " ", "v", "1">>

lnA2c == <<"a", " ", "v", "2", " ", "/", "/", " ", "x">>

lnAB1 == <<"a", "-", "b", " ", " ", "v", "1">>

lnReqC == <<"r", "e", "q", "u", "i", "r", "e", " ", "c", " ", "v", "3">>

lnReplArrow == <<"r", "e", "p", "l", "a", "c", "e", " ", "a", " ", "=", ">", " ", "b">>

lnReplBare == <<"r", "e", "p", "l", "a", "c", "e", " ", "a", " ", "b">>

lnModule == <<"m", "o", "d", "u", "l", "e", " ", "m">>

GoLines ==
    {lnBlank, lnComment, lnOpen, lnClose, lnA1, lnA2c, lnAB1, lnReqC,
     lnReplArrow, lnReplBare, lnModule}

GoFiles == {Unreadable} \cup {Text(l) : l \in SeqUpTo(GoLines, MaxLines)}

InitGoMod ==
    /\ CliIdle
    /\ tree = <<>> /\ AggIdle /\ MainIdle
    /\ content \in GoFiles
    /\ deps = Nil
    /\ ppc = "call"

CallParseGoModDeps ==
    /\ ppc = "call"
    /\ deps' = parseGoModDeps(content)
    /\ ppc' = "ret"
    /\ UNCHANGED <<content, tree, aggVars, mainVars, cliVars>>

NextGoMod == CallParseGoModDeps

SpecGoMod == InitGoMod /\ [][NextGoMod]_vars

(***************************************************************************)
(* SpecGoReplace: parseGoModDeps applied to every go.mod of at most        *)
(* MaxLines lines drawn from GoReplaceLines, the replace directives in     *)
(* their forms, inside and outside a require block.                        *)
(***************************************************************************)
lnReplVer == <<"r", "e", "p", "l", "a", "c", "e", " ", "c", " ", "v", "1", " ", "=", ">", " ", "d", " ", "v", "2">>

lnReplShort == <<"r", "e", "p", "l", "a", "c", "e", " ", "e">>

lnReplNoRight == <<"r", "e", "p", "l", "a", "c", "e", " ", "e", " ", "=", ">">>

GoReplaceLines ==
    {lnOpen, lnClose, lnComment, lnA1, lnReplArrow, lnReplBare, lnReplVer,
     lnReplShort, lnReplNoRight}

GoReplaceFiles == {Unreadable} \cup {Text(l) : l \in SeqUpTo(GoReplaceLines, MaxLines)}

InitGoReplace ==
    /\ CliIdle
    /\ tree = <<>> /\ AggIdle /\ MainIdle
    /\ content \in GoReplaceFiles
    /\ deps = Nil
    /\ ppc = "call"

NextGoReplace == CallParseGoModDeps

SpecGoReplace == InitGoReplace /\ [][NextGoReplace]_vars

(***************************************************************************)
(* parsePackageJSONDeps, parsers.go.  A decoded JSON value is a string, a  *)
(* number or null; an object member of the document (`dependencies`,       *)
(* `devDependencies`) either is an object, with its members, or is absent  *)
(* or of another type, and then the type assertion of lines 171/183 fails. *)
(***************************************************************************)
JString(s) == [kind |-> "string", text |-> s]

JNumber(digits) == [kind |-> "number", text |-> digits]

JNull == [kind |-> "null", text |-> <<>>]

\* the type switch of lines 174-179: a string as it is, anything else
\* through fmt.Sprintf("%v", vv)
sprintVersion(v) ==
    CASE v.kind = "string" -> v.text
      [] v.kind = "number" -> v.text
      [] OTHER -> <<"<", "n", "i", "l", ">">>

\* the rendered entries of one of the two maps
packageJSONEntries(m) ==
    IF m.object
    THEN {NameAtVersion(k, sprintVersion(m.members[k])) : k \in DOMAIN m.members}
    ELSE {}

\* a mutation of parsePackageJSONDeps that reads `dependencies` only
parsePackageJSONDepsNoDev(file) ==
    IF file.err \/ ~file.json.valid THEN Nil
    ELSE setToSortedSlice(packageJSONEntries(file.json.dependencies))

parsePackageJSONDeps(file) ==
    IF file.err THEN Nil
    ELSE IF ~file.json.valid THEN Nil
    ELSE setToSortedSlice(packageJSONEntries(file.json.dependencies)
                            \cup packageJSONEntries(file.json.devDependencies))

(***************************************************************************)
(* SpecNode: parsePackageJSONDeps applied to every package.json whose two  *)
(* maps take their keys from JsonKeys and their values from JsonValues.    *)
(***************************************************************************)
JsonKeys == {<<"a">>, <<"l", "i", "b">>}

JsonValues == {JString(<<"1">>), JString(<<"^", "2">>), JNumber(<<"1">>), JNull}

\* an object member: absent or not an object, or an object over some keys
JsonMaps ==
    {[object |-> FALSE, members |-> <<>>]}
        \cup {[object |-> TRUE, members |-> m] :
                m \in UNION {[K -> JsonValues] : K \in SUBSET JsonKeys}}

\* what json.Unmarshal accepts into a map[string]interface{}
JsonDocs ==
    {[valid |-> TRUE, dependencies |-> d, devDependencies |-> v] :
        d \in JsonMaps, v \in JsonMaps}

NodeFiles == {Unreadable, Json(NoJson)} \cup {Json(doc) : doc \in JsonDocs}

InitNode ==
    /\ CliIdle
    /\ tree = <<>> /\ AggIdle /\ MainIdle
    /\ content \in NodeFiles
    /\ deps = Nil
    /\ ppc = "call"

CallParsePackageJSONDeps ==
    /\ ppc = "call"
    /\ deps' = parsePackageJSONDeps(content)
    /\ ppc' = "ret"
    /\ UNCHANGED <<content, tree, aggVars, mainVars, cliVars>>

NextNode == CallParsePackageJSONDeps

SpecNode == InitNode /\ [][NextNode]_vars

(***************************************************************************)
(* pom.xml.  The text of a POM is the sequence of its tags and of the text *)
(* runs between them; on that sequence the regular expressions of          *)
(* parsers.go match as they do on the characters.                          *)
(***************************************************************************)
Open(name) == [kind |-> "open", s |-> name]

Close(name) == [kind |-> "close", s |-> name]

Txt(t) == [kind |-> "text", s |-> t]

tDependency == <<"d", "e", "p", "e", "n", "d", "e", "n", "c", "y">>

tGroupId == <<"g", "r", "o", "u", "p", "I", "d">>

tArtifactId == <<"a", "r", "t", "i", "f", "a", "c", "t", "I", "d">>

tVersion == <<"v", "e", "r", "s", "i", "o", "n">>

tProperties == <<"p", "r", "o", "p", "e", "r", "t", "i", "e", "s">>

tDependencyManagement == <<"d", "e", "p", "e", "n", "d", "e", "n", "c", "y", "M", "a", "n", "a", "g", "e", "m", "e", "n", "t">>

sPlaceholder == <<"$", "{">>

RECURSIVE pomBlocks(_, _)
\* FindAllStringSubmatch of (?s)<name>(.*?)</name>: the inside of every
\* block, each ending at the first closing tag after its opening tag
pomBlocks(tokens, name) ==
    LET opens == {i \in 1..Len(tokens) : tokens[i] = Open(name)}
    IN  IF opens = {} THEN <<>>
        ELSE LET i == Min(opens)
                 closes == {j \in (i + 1)..Len(tokens) : tokens[j] = Close(name)}
             IN  IF closes = {} THEN <<>>
                 ELSE LET j == Min(closes)
                      IN  <<SubSeq(tokens, i + 1, j - 1)>>
                            \o pomBlocks(SubSeq(tokens, j + 1, Len(tokens)), name)

\* FindStringSubmatch of <name>\s*([^<\s]+)\s*</name> followed by TrimSpace:
\* the first <name> whose text is one word; "" when there is none
pomTagValue(block, name) ==
    LET hits == {i \in 1..(Len(block) - 2) :
                    /\ block[i] = Open(name)
                    /\ block[i + 1].kind = "text"
                    /\ Len(Fields(block[i + 1].s)) = 1
                    /\ block[i + 2] = Close(name)}
    IN  IF hits = {} THEN <<>> ELSE TrimSpace(Fields(block[Min(hits) + 1].s)[1])

\* fmt.Sprintf("%s:%s", g, a)
GroupArtifact(g, a) == g \o <<":">> \o a

\* a mutation of pomDepKey that keeps a placeholder version as it is written
pomDepKeyKeepPlaceholder(block) ==
    LET g == pomTagValue(block, tGroupId)
        a == pomTagValue(block, tArtifactId)
        v == pomTagValue(block, tVersion)
    IN  IF g = <<>> /\ a = <<>> THEN {}
        ELSE IF v # <<>> THEN {NameAtVersion(GroupArtifact(g, a), v)}
        ELSE {GroupArtifact(g, a)}

\* a mutation of pomDepKey that takes the version of a block without one
\* from the dependency-management table
pomDepKeyManaged(block) ==
    LET g == pomTagValue(block, tGroupId)
        a == pomTagValue(block, tArtifactId)
        v0 == pomTagValue(block, tVersion)
        v1 == IF Contains(v0, sPlaceholder) THEN <<>> ELSE v0
        v == IF v1 = <<>> /\ GroupArtifact(g, a) \in DOMAIN allDM
             THEN allDM[GroupArtifact(g, a)] ELSE v1
    IN  IF g = <<>> /\ a = <<>> THEN {}
        ELSE IF v # <<>> THEN {NameAtVersion(GroupArtifact(g, a), v)}
        ELSE {GroupArtifact(g, a)}

\* the body of the loop of parsePomDeps over the dependency blocks: the key
\* one block adds to the set, if any
pomDepKey(block) ==
    LET g == pomTagValue(block, tGroupId)
        a == pomTagValue(block, tArtifactId)
        v0 == pomTagValue(block, tVersion)
        v == IF Contains(v0, sPlaceholder) THEN <<>> ELSE v0
    IN  IF g = <<>> /\ a = <<>> THEN {}
        ELSE IF v # <<>> THEN {NameAtVersion(GroupArtifact(g, a), v)}
        ELSE {GroupArtifact(g, a)}

\* parsePomDeps(path, repoRoot); repoRoot is not read
parsePomDeps(file) ==
    IF file.err THEN Nil
    ELSE LET blocks == pomBlocks(file.xml, tDependency)
         IN  setToSortedSlice(UNION {pomDepKey(blocks[i]) : i \in 1..Len(blocks)})

RECURSIVE pomPairs(_)
\* FindAllStringSubmatch of (?s)<([^>\s]+)>\s*([^<]+)\s*</[^>]+>: a tag, a
\* non-empty text run and a closing tag in a row; the tag may itself be a
\* closing tag, whose name then starts with "/"
pomPairs(inner) ==
    IF Len(inner) < 3 THEN <<>>
    ELSE IF /\ inner[1].kind # "text"
            /\ inner[2].kind = "text" /\ Len(inner[2].s) >= 1
            /\ inner[3].kind = "close"
    THEN <<[k |-> IF inner[1].kind = "open" THEN inner[1].s ELSE <<"/">> \o inner[1].s,
            v |-> TrimSpace(inner[2].s)]>> \o pomPairs(SubSeq(inner, 4, Len(inner)))
    ELSE pomPairs(Tail(inner))

\* a mutation of lastWins in which the first assignment to a key stays
firstWinsInFile(pairs) ==
    [key \in {pairs[i].k : i \in 1..Len(pairs)} |->
        LET at == {i \in 1..Len(pairs) : pairs[i].k = key}
        IN  pairs[CHOOSE i \in at : \A j \in at : i <= j].v]

\* the map a sequence of assignments m[k] = v leaves: the last one wins
lastWins(pairs) ==
    [key \in {pairs[i].k : i \in 1..Len(pairs)} |->
        LET at == {i \in 1..Len(pairs) : pairs[i].k = key}
        IN  pairs[CHOOSE i \in at : \A j \in at : j <= i].v]

parsePomProperties(file) ==
    IF file.err THEN <<>>
    ELSE LET m == pomBlocks(file.xml, tProperties)
         IN  IF m = <<>> THEN <<>> ELSE lastWins(pomPairs(m[1]))

RECURSIVE pomManaged(_)
\* the assignments of parsePomDependencyManagement over the dependency blocks
pomManaged(blocks) ==
    IF blocks = <<>> THEN <<>>
    ELSE LET g == pomTagValue(Head(blocks), tGroupId)
             a == pomTagValue(Head(blocks), tArtifactId)
             v == pomTagValue(Head(blocks), tVersion)
         IN  (IF g # <<>> /\ a # <<>>
              THEN <<[k |-> GroupArtifact(g, a), v |-> v]>>
              ELSE <<>>) \o pomManaged(Tail(blocks))

parsePomDependencyManagement(file) ==
    IF file.err THEN <<>>
    ELSE LET m == pomBlocks(file.xml, tDependencyManagement)
         IN  IF m = <<>> THEN <<>>
             ELSE lastWins(pomManaged(pomBlocks(m[1], tDependency)))

RECURSIVE resolvePomValue(_, _)
\* ReplaceAllStringFunc of \$\{([^}]+)\}: every placeholder with a known
\* name is replaced, every other one is left as written
resolvePomValue(val, props) ==
    LET i == Index(val, sPlaceholder)
        rest == SubSeq(val, i + 2, Len(val))
        j == Index(rest, <<"}">>)
    IN  IF i = 0 \/ j = 0 THEN val
        ELSE IF j = 1 THEN SubSeq(val, 1, i + 1) \o resolvePomValue(rest, props)
        ELSE LET name == SubSeq(rest, 1, j - 1)
             IN  SubSeq(val, 1, i - 1)
                   \o (IF name \in DOMAIN props THEN props[name]
                       ELSE SubSeq(val, i, i + j + 1))
                   \o resolvePomValue(SubSeq(rest, j + 1, Len(rest)), props)


(***************************************************************************)
(* SpecPom: parsePomDeps applied to every pom.xml of at most MaxDeps       *)
(* dependency blocks, each with or without its three tags.                 *)
(***************************************************************************)
\* <name>t</name>, or nothing when t is empty
Tag(name, t) == IF t = <<>> THEN <<>> ELSE <<Open(name), Txt(t), Close(name)>>

\* <dependency> with the tags for which d has a text </dependency>
DepBlock(d) ==
    <<Open(tDependency)>> \o Tag(tGroupId, d.g) \o Tag(tArtifactId, d.a)
        \o Tag(tVersion, d.v) \o <<Close(tDependency)>>

RECURSIVE Flatten(_)
Flatten(ss) == IF ss = <<>> THEN <<>> ELSE Head(ss) \o Flatten(Tail(ss))

PomGroups == {<<>>, <<"o", "r", "g", ".", "a">>, <<"$", "{", "g", "}">>}

PomArtifacts == {<<>>, <<"b">>}

PomVersions == {<<>>, <<"1", ".", "0">>, <<" ", "2", ".", "3", " ">>, <<"$", "{", "v", "}">>, <<"$", "{", "f", "o", "o", ".", "v", "e", "r", "s", "i", "o", "n", "}">>, <<"1", " ", "0">>}

PomDepChoices == [g : PomGroups, a : PomArtifacts, v : PomVersions]

PomFiles ==
    {Unreadable}
        \cup {Xml(Flatten([i \in 1..Len(ds) |-> DepBlock(ds[i])])) :
                ds \in SeqUpTo(PomDepChoices, MaxDeps)}

InitPom ==
    /\ CliIdle
    /\ tree = <<>> /\ AggIdle /\ MainIdle
    /\ content \in PomFiles
    /\ deps = Nil
    /\ ppc = "call"

CallParsePomDeps ==
    /\ ppc = "call"
    /\ deps' = parsePomDeps(content)
    /\ ppc' = "ret"
    /\ UNCHANGED <<content, tree, aggVars, mainVars, cliVars>>

NextPom == CallParsePomDeps

SpecPom == InitPom /\ [][NextPom]_vars

(***************************************************************************)
(* SpecPomTables: parsePomDeps on every pom.xml of SpecPom while the       *)
(* tables of the aggregator hold any of a few contents.                    *)
(***************************************************************************)
\* property tables: empty, or with the names the placeholders of PomVersions use
PomPropTables ==
    {<<>>,
     (<<"v">> :> <<"9", ".", "9">>) @@ (<<"f", "o", "o", ".", "v", "e", "r", "s", "i", "o", "n">> :> <<"2", ".", "3">>)}

\* dependency-management tables: empty, or with a version for org.a:b
PomManagedTables == {<<>>, (<<"o", "r", "g", ".", "a", ":", "b">> :> <<"2", ".", "0">>)}

InitPomTables ==
    /\ CliIdle
    /\ tree = <<>> /\ MainIdle
    /\ allProps \in PomPropTables /\ allDM \in PomManagedTables /\ walked = 0
    /\ content \in PomFiles
    /\ deps = Nil
    /\ ppc = "call"

NextPomTables == CallParsePomDeps

SpecPomTables == InitPomTables /\ [][NextPomTables]_vars


(***************************************************************************)
(* The checkout.  A path is the sequence of its components below the root; *)
(* filepath.Walk visits a directory's entries in the byte order of their   *)
(* names, a directory's content before the directory's next sibling.       *)
(***************************************************************************)
\* the cleaned target directory ("./repo" by default, main.go:21)
Root == <<"r", "e", "p", "o">>

RECURSIVE JoinPath(_)
\* the components joined by "/"
JoinPath(p) ==
    IF Len(p) = 1 THEN p[1] ELSE p[1] \o <<"/">> \o JoinPath(Tail(p))

\* the path filepath.Walk hands to its callback: filepath.Join(root, ...)
FullPath(p) == Root \o <<"/">> \o JoinPath(p)

\* filepath.Rel(root, path) for a path below root
Rel(root, path) == SubSeq(path, Len(root) + 2, Len(path))

\* p is visited before q
PathLess(p, q) ==
    LET n == IF Len(p) < Len(q) THEN Len(p) ELSE Len(q)
        d == {i \in 1..n : p[i] # q[i]}
    IN  IF d = {} THEN Len(p) < Len(q)
        ELSE LET i == Min(d) IN StrLess(p[i], q[i])

\* the files of the checkout in the order filepath.Walk visits them
walkOrder(t) ==
    [i \in 1..Cardinality(DOMAIN t) |->
        CHOOSE p \in DOMAIN t : Cardinality({q \in DOMAIN t : PathLess(q, p)}) = i - 1]

\* every checkout of at most n files, its paths taken from the domain of
\* choices, the file at each path from the choices for that path
Checkouts(choices, n) ==
    UNION {{t \in [P -> UNION {choices[p] : p \in P}] : \A p \in P : t[p] \in choices[p]} :
            P \in {Q \in SUBSET DOMAIN choices : Cardinality(Q) <= n}}

(***************************************************************************)
(* aggregatePomData, parsers.go: one action per entry of the walk.         *)
(***************************************************************************)
sPomXml == <<"p", "o", "m", ".", "x", "m", "l">>

\* a mutation of mergeFirstWriter in which a later file overwrites
mergeLastWriter(all, m) ==
    [k \in DOMAIN all \cup DOMAIN m |-> IF k \in DOMAIN m THEN m[k] ELSE all[k]]

\* the loops of lines 305-309 and 311-315: an entry is added only under a
\* key the table does not hold yet
mergeFirstWriter(all, m) ==
    [k \in DOMAIN all \cup DOMAIN m |-> IF k \in DOMAIN all THEN all[k] ELSE m[k]]

\* the callback reads the entry: no walk error, and the path ends in pom.xml
aggregateReads(p, file) == ~file.walkErr /\ HasSuffix(FullPath(p), sPomXml)

\* a mutation of AggregateVisit whose callback returns the error it is given
\* or meets, which ends the walk
AggregateVisitAbort ==
    /\ pc = "aggregate"
    /\ walked < Len(walkOrder(tree))
    /\ LET p == walkOrder(tree)[walked + 1]
       IN  IF tree[p].walkErr \/ tree[p].err
           THEN /\ walked' = Len(walkOrder(tree))
                /\ UNCHANGED <<allProps, allDM>>
           ELSE /\ walked' = walked + 1
                /\ IF aggregateReads(p, tree[p])
                   THEN /\ allProps' = mergeFirstWriter(allProps, parsePomProperties(tree[p]))
                        /\ allDM' = mergeFirstWriter(allDM, parsePomDependencyManagement(tree[p]))
                   ELSE UNCHANGED <<allProps, allDM>>
    /\ UNCHANGED <<tree, parserVars, mainVars, cliVars>>

\* the walk callback of aggregatePomData on the next entry
AggregateVisit ==
    /\ pc = "aggregate"
    /\ walked < Len(walkOrder(tree))
    /\ LET p == walkOrder(tree)[walked + 1]
       IN  IF aggregateReads(p, tree[p])
           THEN /\ allProps' = mergeFirstWriter(allProps, parsePomProperties(tree[p]))
                /\ allDM' = mergeFirstWriter(allDM, parsePomDependencyManagement(tree[p]))
           ELSE UNCHANGED <<allProps, allDM>>
    /\ walked' = walked + 1
    /\ UNCHANGED <<tree, parserVars, mainVars, cliVars>>

(***************************************************************************)
(* SpecAgg: aggregatePomData over every checkout of at most MaxPoms files. *)
(***************************************************************************)
\* <properties> with one element per pair </properties>
PropBlock(pairs) ==
    <<Open(tProperties)>> \o Flatten([i \in 1..Len(pairs) |-> Tag(pairs[i].k, pairs[i].v)])
        \o <<Close(tProperties)>>

\* <dependencyManagement> with one <dependency> per entry </dependencyManagement>
ManagedBlock(ds) ==
    <<Open(tDependencyManagement)>> \o Flatten([i \in 1..Len(ds) |-> DepBlock(ds[i])])
        \o <<Close(tDependencyManagement)>>

Prop(k, v) == [k |-> k, v |-> v]

Dep(g, a, v) == [g |-> g, a |-> a, v |-> v]

AggPoms ==
    {Xml(PropBlock(<<Prop(<<"x">>, <<"1">>)>>)),
     Xml(PropBlock(<<Prop(<<"x">>, <<"2">>), Prop(<<"y">>, <<"2">>)>>)),
     Xml(PropBlock(<<Prop(<<"x">>, <<"1">>), Prop(<<"x">>, <<"3">>)>>)),
     Xml(ManagedBlock(<<Dep(<<"g">>, <<"a">>, <<"1", ".", "0">>)>>) \o PropBlock(<<Prop(<<"x">>, <<"4">>), Prop(<<"y">>, <<"1">>)>>)),
     Xml(ManagedBlock(<<Dep(<<"g">>, <<"a">>, <<"2", ".", "0">>), Dep(<<"g">>, <<"b">>, <<"1", ".", "0">>)>>)),
     Xml(DepBlock(Dep(<<"g">>, <<"a">>, <<"$", "{", "x", "}">>))),
     Unreadable,
     WalkError}

AggPaths ==
    {<<sPomXml>>, <<<<"a">>, sPomXml>>, <<<<"x", "p", "o", "m", ".", "x", "m", "l">>>>,
     <<<<".", "g", "i", "t">>, sPomXml>>, <<<<"a">>, <<"n", "o", "t", "e", "s", ".", "x", "m", "l">>>>}

InitAgg ==
    /\ CliIdle
    /\ tree \in Checkouts([p \in AggPaths |-> AggPoms], MaxPoms)
    /\ AggIdle /\ ParserIdle
    /\ repoURL = <<>> /\ pc = "aggregate" /\ managers = <<>> /\ todo = {}
    /\ analysis = EmptyAnalysis /\ calls = <<>> /\ run = 0 /\ first = EmptyAnalysis

NextAgg == AggregateVisit

SpecAgg == InitAgg /\ [][NextAgg]_vars

(***************************************************************************)
(* SpecPomProps: aggregatePomData over POMs of one or two <properties>     *)
(* blocks, some of which define a key more than once.                      *)
(***************************************************************************)
\* the <properties> blocks of the POMs of SpecPomProps, as their pairs
PomPropBlocks ==
    {<<>>,
     <<Prop(<<"x">>, <<"1">>)>>,
     <<Prop(<<"x">>, <<"1">>), Prop(<<"x">>, <<"2">>)>>,
     <<Prop(<<"x">>, <<"2">>), Prop(<<"y">>, <<"1">>), Prop(<<"x">>, <<"1">>)>>,
     <<Prop(<<"y">>, <<"2">>)>>}

\* a POM of one block, or of two blocks one after the other
PomPropFiles ==
    {Xml(PropBlock(b)) : b \in PomPropBlocks}
        \cup {Xml(PropBlock(b) \o PropBlock(c)) : b, c \in PomPropBlocks}

PomPropPaths == {<<sPomXml>>, <<<<"a">>, sPomXml>>}

InitPomProps ==
    /\ CliIdle
    /\ tree \in Checkouts([p \in PomPropPaths |-> PomPropFiles], MaxPoms)
    /\ AggIdle /\ ParserIdle
    /\ repoURL = <<>> /\ pc = "aggregate" /\ managers = <<>> /\ todo = {}
    /\ analysis = EmptyAnalysis /\ calls = <<>> /\ run = 0 /\ first = EmptyAnalysis

NextPomProps == AggregateVisit

SpecPomProps == InitPomProps /\ [][NextPomProps]_vars


(***************************************************************************)
(* parseGradleDeps, parsers.go.  Both regular expressions are anchored at  *)
(* the start of a line ((?m)^), so each is matched line by line.           *)
(***************************************************************************)
\* the configurations of reSimple, line 390
gradleSimpleWords ==
    {<<"i", "m", "p", "l", "e", "m", "e", "n", "t", "a", "t", "i", "o", "n">>, <<"a", "p", "i">>, <<"c", "o", "m", "p", "i", "l", "e">>, <<"c", "o", "m", "p", "i", "l", "e", "O", "n", "l", "y">>, <<"r", "u", "n", "t", "i", "m", "e", "O", "n", "l", "y">>,
     <<"r", "u", "n", "t", "i", "m", "e">>, <<"t", "e", "s", "t", "I", "m", "p", "l", "e", "m", "e", "n", "t", "a", "t", "i", "o", "n">>, <<"t", "e", "s", "t", "C", "o", "m", "p", "i", "l", "e">>, <<"t", "e", "s", "t", "R", "u", "n", "t", "i", "m", "e", "O", "n", "l", "y">>,
     <<"t", "e", "s", "t", "R", "u", "n", "t", "i", "m", "e">>}

\* the configurations of reMap, line 409
gradleMapWords ==
    {<<"i", "m", "p", "l", "e", "m", "e", "n", "t", "a", "t", "i", "o", "n">>, <<"a", "p", "i">>, <<"c", "o", "m", "p", "i", "l", "e">>, <<"t", "e", "s", "t", "I", "m", "p", "l", "e", "m", "e", "n", "t", "a", "t", "i", "o", "n">>, <<"t", "e", "s", "t", "C", "o", "m", "p", "i", "l", "e">>,
     <<"r", "u", "n", "t", "i", "m", "e", "O", "n", "l", "y">>, <<"t", "e", "s", "t", "R", "u", "n", "t", "i", "m", "e", "O", "n", "l", "y">>}

IsQuote(c) == c = "'" \/ c = "\""

\* s without its leading white space
TrimLeft(s) ==
    LET ink == {i \in 1..Len(s) : ~IsSpace(s[i])}
    IN  IF ink = {} THEN <<>> ELSE SubSeq(s, Min(ink), Len(s))

RECURSIVE Split(_, _)
\* strings.Split(s, sep) for a one-character sep
Split(s, sep) ==
    LET at == {i \in 1..Len(s) : s[i] = sep}
    IN  IF at = {} THEN <<s>>
        ELSE <<SubSeq(s, 1, Min(at) - 1)>> \o Split(SubSeq(s, Min(at) + 1, Len(s)), sep)

RECURSIVE Join(_, _)
\* strings.Join(parts, sep)
Join(parts, sep) ==
    IF parts = <<>> THEN <<>>
    ELSE IF Len(parts) = 1 THEN parts[1]
    ELSE parts[1] \o sep \o Join(Tail(parts), sep)

\* ['"]([^'"\)]+)['"] at the start of s: the text between the opening quote
\* and the next quote, if no ")" comes before it; <<>> when s does not match.
\* stops are the characters that end the text besides a quote.
quoted(s, stops) ==
    IF s = <<>> \/ ~IsQuote(s[1]) THEN <<>>
    ELSE LET ends == {i \in 2..Len(s) : IsQuote(s[i]) \/ s[i] \in stops}
         IN  IF ends = {} THEN <<>>
             ELSE IF IsQuote(s[Min(ends)]) THEN SubSeq(s, 2, Min(ends) - 1)
             ELSE <<>>

\* the text reSimple captures on a line; <<>> when the line does not match
gradleSimpleCapture(line) ==
    LET ln == TrimLeft(line)
        Rest(w) == LET r == TrimLeft(SubSeq(ln, Len(w) + 1, Len(ln)))
                   IN  IF r # <<>> /\ r[1] = "(" THEN Tail(r) ELSE r
        caps == {quoted(Rest(w), {")"}) : w \in {x \in gradleSimpleWords : HasPrefix(ln, x)}}
    IN  IF caps \subseteq {<<>>} THEN <<>> ELSE CHOOSE c \in caps : c # <<>>

\* the key lines 396-404 add for the parts of a capture, if any
gradleSimpleParts(parts) ==
    IF Len(parts) < 2 THEN {}
    ELSE IF Len(parts) >= 3 /\ Join(SubSeq(parts, 3, Len(parts)), <<":">>) # <<>>
    THEN {NameAtVersion(GroupArtifact(parts[1], parts[2]),
                        Join(SubSeq(parts, 3, Len(parts)), <<":">>))}
    ELSE {GroupArtifact(parts[1], parts[2])}

\* the key the first loop (lines 391-406) adds for a line, if any; the
\* capture of a line that matches is not empty, and the empty text splits
\* into one part
gradleSimpleKey(line) == gradleSimpleParts(Split(gradleSimpleCapture(line), ":"))

\* the rest of the line reMap captures after the configuration and the
\* blanks that follow it; <<>> when the line does not match
gradleMapCapture(line) ==
    LET ln == TrimLeft(line)
        hits == {w \in gradleMapWords :
                    /\ HasPrefix(ln, w)
                    /\ Len(ln) > Len(w) + 1
                    /\ IsSpace(ln[Len(w) + 1])}
        RestAfter(w) == TrimLeft(SubSeq(ln, Len(w) + 1, Len(ln)))
    IN  IF hits = {} THEN <<>>
        ELSE LET r == RestAfter(CHOOSE x \in hits : TRUE)
             IN  IF r = <<>> THEN <<" ">> ELSE r

\* the text ['"]([^'"]+)['"] captures after "\s*:\s*" at the start of s
gradleMapQuoted(s) ==
    IF s # <<>> /\ s[1] = ":" THEN quoted(TrimLeft(Tail(s)), {}) ELSE <<>>

\* key\s*:\s*['"]([^'"]+)['"]: the first place of the line where it
\* matches, and the text it captures there; <<>> when there is none
gradleMapValue(line, key) ==
    LET Value(i) == gradleMapQuoted(TrimLeft(SubSeq(line, i + Len(key), Len(line))))
        values == [i \in 1..(Len(line) - Len(key) + 1) |->
                      IF SubSeq(line, i, i + Len(key) - 1) = key THEN Value(i) ELSE <<>>]
        hits == {i \in DOMAIN values : values[i] # <<>>}
    IN  IF hits = {} THEN <<>> ELSE values[Min(hits)]

\* the key lines 420-433 add for the group, name and version found
gradleMapParts(g, a, v) ==
    IF g = <<>> \/ a = <<>> THEN {}
    ELSE IF v # <<>> THEN {NameAtVersion(GroupArtifact(g, a), v)}
    ELSE {GroupArtifact(g, a)}

\* what the second loop does with the rest of a line that matched reMap
gradleMapRest(rest) ==
    gradleMapParts(gradleMapValue(rest, <<"g", "r", "o", "u", "p">>),
                   gradleMapValue(rest, <<"n", "a", "m", "e">>),
                   gradleMapValue(rest, <<"v", "e", "r", "s", "i", "o", "n">>))

\* the key the second loop (lines 410-435) adds for a line, if any; a rest
\* of <<>> (no match) holds no group
gradleMapKey(line) == gradleMapRest(gradleMapCapture(line))

parseGradleDeps(file) ==
    IF file.err THEN Nil
    ELSE setToSortedSlice(
            UNION {gradleSimpleKey(file.lines[i]) \cup gradleMapKey(file.lines[i]) :
                    i \in 1..Len(file.lines)})


(***************************************************************************)
(* The manifests of ecosystems whose parsers the source at hand lacks      *)
(* (parseCargoTomlDeps, parseSetupPyDeps, parseRequirementsTxtDeps,        *)
(* parsePackageSwiftDeps, parseGemfileDeps): each is, by the               *)
(* specification, a best-effort function from the file to the sorted list  *)
(* of its declarations, rendered name@version or bare name.                *)
(***************************************************************************)
declaredDeps(file) ==
    IF file.err THEN Nil
    ELSE setToSortedSlice({IF d.version = <<>> THEN d.name
                           ELSE NameAtVersion(d.name, d.version) : d \in file.decl})

parseCargoTomlDeps(file) == declaredDeps(file)

parseSetupPyDeps(file) == declaredDeps(file)

parseRequirementsTxtDeps(file) == declaredDeps(file)

parsePackageSwiftDeps(file) == declaredDeps(file)

parseGemfileDeps(file) == declaredDeps(file)

(***************************************************************************)
(* detectPackageManagers, discovery.go.                                    *)
(***************************************************************************)
kGo == <<"g", "o">>

kNpm == <<"n", "o", "d", "e", "/", "n", "p", "m">>

kYarn == <<"n", "o", "d", "e", "/", "y", "a", "r", "n">>

kPython == <<"p", "y", "t", "h", "o", "n">>

kMaven == <<"m", "a", "v", "e", "n">>

kGradle == <<"g", "r", "a", "d", "l", "e">>

kComposer == <<"c", "o", "m", "p", "o", "s", "e", "r", "/", "p", "h", "p">>

kRuby == <<"r", "u", "b", "y">>

kRust == <<"r", "u", "s", "t">>

kSwift == <<"s", "w", "i", "f", "t">>

\* no manifest: the file name matches no case of the switch
kNone == <<>>

\* the switch of lines 47-71 on the lower-cased file name
ecosystemOf(name) ==
    CASE name = <<"g", "o", ".", "m", "o", "d">> -> kGo
      [] name = <<"p", "a", "c", "k", "a", "g", "e", ".", "j", "s", "o", "n">> -> kNpm
      [] name = <<"y", "a", "r", "n", ".", "l", "o", "c", "k">> -> kYarn
      [] name \in {<<"r", "e", "q", "u", "i", "r", "e", "m", "e", "n", "t", "s", ".", "t", "x", "t">>, <<"s", "e", "t", "u", "p", ".", "p", "y">>, <<"p", "i", "p", "f", "i", "l", "e">>, <<"p", "y", "p", "r", "o", "j", "e", "c", "t", ".", "t", "o", "m", "l">>} -> kPython
      [] name = <<"p", "o", "m", ".", "x", "m", "l">> -> kMaven
      [] name \in {<<"b", "u", "i", "l", "d", ".", "g", "r", "a", "d", "l", "e">>, <<"b", "u", "i", "l", "d", ".", "g", "r", "a", "d", "l", "e", ".", "k", "t", "s">>, <<"g", "r", "a", "d", "l", "e", ".", "p", "r", "o", "p", "e", "r", "t", "i", "e", "s">>} -> kGradle
      [] name = <<"c", "o", "m", "p", "o", "s", "e", "r", ".", "j", "s", "o", "n">> -> kComposer
      [] name = <<"g", "e", "m", "f", "i", "l", "e">> -> kRuby
      [] name = <<"c", "a", "r", "g", "o", ".", "t", "o", "m", "l">> -> kRust
      [] name = <<"p", "a", "c", "k", "a", "g", "e", ".", "s", "w", "i", "f", "t">> -> kSwift
      [] OTHER -> kNone

\* the walk reaches the file: it reports no error for it, and no directory
\* above it is named .git (filepath.SkipDir, lines 38-44)
detectVisits(t, p) ==
    /\ ~t[p].walkErr
    /\ \A i \in 1..(Len(p) - 1) : p[i] # <<".", "g", "i", "t">>

\* the ecosystem tag of the file at p
detectTag(p) == ecosystemOf(ToLower(p[Len(p)]))

\* found: tag -> the paths appended under it, in the order of the walk
detectPackageManagers(t) ==
    LET order == walkOrder(t)
        tags == {detectTag(p) : p \in {q \in DOMAIN t : detectVisits(t, q)}} \ {kNone}
    IN  [k \in tags |->
            LET Mine(p) == detectVisits(t, p) /\ detectTag(p) = k
                mine == SelectSeq(order, Mine)
            IN  [i \in 1..Len(mine) |-> FullPath(mine[i])]]

(***************************************************************************)
(* analyzeRepository, output.go.                                           *)
(***************************************************************************)
niceName(key) ==
    CASE key = kGo -> <<"G", "o">>
      [] key = kNpm -> <<"N", "o", "d", "e">>
      [] key = kYarn -> <<"Y", "a", "r", "n">>
      [] key = kPython -> <<"P", "y", "t", "h", "o", "n">>
      [] key = kMaven -> <<"M", "a", "v", "e", "n">>
      [] key = kGradle -> <<"G", "r", "a", "d", "l", "e">>
      [] key = kComposer -> <<"C", "o", "m", "p", "o", "s", "e", "r">>
      [] key = kRuby -> <<"R", "u", "b", "y">>
      [] key = kRust -> <<"R", "u", "s", "t">>
      [] key = kSwift -> <<"S", "w", "i", "f", "t">>
      [] OTHER -> key

\* filepath.Base of the root
BaseOfRoot == Root

\* the orders in which a range over a map with the keys S may yield them
Orders(S) ==
    {f \in [1..Cardinality(S) -> S] : \A i, j \in 1..Cardinality(S) : f[i] = f[j] => i = j}

\* the file os.ReadFile finds at a path the detector recorded
fileAt(t, path) == t[CHOOSE p \in DOMAIN t : FullPath(p) = path]

\* the parser a branch of the switch of lines 63-147 applies to the file at
\* path; "" for the default branch, which parses nothing
parserOf(k, path) ==
    CASE k = kGo -> "parseGoModDeps"
      [] k = kNpm -> "parsePackageJSONDeps"
      [] k = kMaven -> "parsePomDeps"
      [] k = kGradle -> "parseGradleDeps"
      [] k = kRust -> "parseCargoTomlDeps"
      [] k = kPython -> IF HasSuffix(path, <<"s", "e", "t", "u", "p", ".", "p", "y">>) THEN "parseSetupPyDeps"
                        ELSE "parseRequirementsTxtDeps"
      [] k = kSwift -> "parsePackageSwiftDeps"
      [] k = kRuby -> "parseGemfileDeps"
      [] OTHER -> ""

\* what that parser returns for the file
parsed(k, path, file) ==
    CASE parserOf(k, path) = "parseGoModDeps" -> parseGoModDeps(file)
      [] parserOf(k, path) = "parsePackageJSONDeps" -> parsePackageJSONDeps(file)
      [] parserOf(k, path) = "parsePomDeps" -> parsePomDeps(file)
      [] parserOf(k, path) = "parseGradleDeps" -> parseGradleDeps(file)
      [] parserOf(k, path) = "parseCargoTomlDeps" -> parseCargoTomlDeps(file)
      [] parserOf(k, path) = "parseSetupPyDeps" -> parseSetupPyDeps(file)
      [] parserOf(k, path) = "parseRequirementsTxtDeps" -> parseRequirementsTxtDeps(file)
      [] parserOf(k, path) = "parsePackageSwiftDeps" -> parsePackageSwiftDeps(file)
      [] parserOf(k, path) = "parseGemfileDeps" -> parseGemfileDeps(file)
      [] OTHER -> Slice(<<>>)

\* the perFile map a branch of the switch builds from what the parser
\* returned for each path: perFile[rel] = deps for each path in order, a
\* later path with the same rel overwriting an earlier one, except that the
\* rust branch skips a file with no dependencies (lines 99-106)
perFileFrom(k, paths, results) ==
    LET kept == {i \in 1..Len(paths) : ~(k = kRust /\ Len(results[i].items) = 0)}
    IN  [f \in {Rel(Root, paths[i]) : i \in kept} |->
            results[CHOOSE i \in kept :
                        /\ Rel(Root, paths[i]) = f
                        /\ \A j \in kept : Rel(Root, paths[j]) = f => j <= i]]

\* the loop over the paths of one ecosystem: each file is read and parsed
perFileOf(t, k, paths) ==
    perFileFrom(k, paths, [i \in 1..Len(paths) |-> parsed(k, paths[i], fileAt(t, paths[i]))])

\* the calls one iteration of the loop of line 60 makes, in order
ecosystemCalls(k, paths) ==
    LET Parses(p) == parserOf(k, p) # ""
        ps == SelectSeq(paths, Parses)
    IN  [i \in 1..Len(ps) |-> [fn |-> parserOf(k, ps[i]), path |-> ps[i]]]

\* a mutation of mergePerFile in which the perFile of an ecosystem
\* replaces the whole of a.Dependencies
mergePerFileReplacing(depsMap, k, built) == (niceName(k) :> built)

\* a.Dependencies once the perFile of one ecosystem is built.  The rust
\* branch fills a perFile of its own and stores it when it is not empty
\* (lines 97-110); the map the code after the switch merges (lines 149-153)
\* is then the outer, empty one.
mergePerFile(depsMap, k, built) ==
    LET eco == niceName(k)
        inner == IF k = kRust /\ DOMAIN built # {}
                 THEN [e \in DOMAIN depsMap \cup {eco} |-> IF e = eco THEN built ELSE depsMap[e]]
                 ELSE depsMap
        perFile == IF k = kRust THEN <<>> ELSE built
        start == IF eco \in DOMAIN inner THEN inner[eco] ELSE <<>>
    IN  [e \in DOMAIN inner \cup {eco} |->
            IF e = eco
            THEN [f \in DOMAIN start \cup DOMAIN perFile |->
                     IF f \in DOMAIN perFile THEN perFile[f] ELSE start[f]]
            ELSE inner[e]]

\* a.Dependencies after one iteration of the loop of line 60
dependenciesAfter(t, depsMap, k, paths) == mergePerFile(depsMap, k, perFileOf(t, k, paths))

\* a.Type without the sort of line 39: the nice names as the range yielded them
typesOfUnsorted(order) == Slice([i \in 1..Len(order) |-> niceName(order[i])])

\* a.Type: the nice names in the order the range yielded the tags, sorted
typesOf(order) == Slice(SortStrings([i \in 1..Len(order) |-> niceName(order[i])]))

\* a.Files: the relative paths in the order the range yielded them, sorted;
\* nil when there is none, since append is never reached
filesOf(order) == IF order = <<>> THEN Nil ELSE Slice(SortStrings(order))

\* the relative paths of all files of all ecosystems (fileSet, lines 43-52)
fileSetOf(m) == UNION {{Rel(Root, m[k][i]) : i \in 1..Len(m[k])} : k \in DOMAIN m}


(***************************************************************************)
(* Spec: main after the clone: detectPackageManagers, then                 *)
(* analyzeRepository, run twice over the same checkout.  A range over a    *)
(* Go map yields its keys in any order; every such order is a behaviour.   *)
(***************************************************************************)
\* detectPackageManagers(targetDir), main.go:66
Detect ==
    /\ pc = "detect"
    /\ managers' = detectPackageManagers(tree)
    /\ pc' = "types"
    /\ UNCHANGED <<tree, parserVars, aggVars, cliVars, repoURL, todo, analysis, calls, run, first>>

\* analyzeRepository, lines 27-40: a.Repo and a.Type
AnalyzeTypes ==
    /\ pc = "types"
    /\ \E order \in Orders(DOMAIN managers) :
        analysis' = [analysis EXCEPT
                        !.Repo = IF repoURL # <<>> THEN repoURL ELSE BaseOfRoot,
                        !.Type = typesOf(order)]
    /\ pc' = "files"
    /\ UNCHANGED <<tree, parserVars, aggVars, cliVars, repoURL, managers, todo, calls, run, first>>

\* analyzeRepository, lines 42-59: a.Files, and the empty a.Dependencies
AnalyzeFiles ==
    /\ pc = "files"
    /\ \E order \in Orders(fileSetOf(managers)) :
        analysis' = [analysis EXCEPT !.Files = filesOf(order), !.Dependencies = <<>>]
    /\ todo' = DOMAIN managers
    /\ pc' = "deps"
    /\ UNCHANGED <<tree, parserVars, aggVars, cliVars, repoURL, managers, calls, run, first>>

\* analyzeRepository, lines 60-154: one iteration of the range over managers
AnalyzeEcosystem ==
    /\ pc = "deps"
    /\ \E k \in todo :
        /\ analysis' = [analysis EXCEPT
                            !.Dependencies = dependenciesAfter(tree, @, k, managers[k])]
        /\ calls' = calls \o ecosystemCalls(k, managers[k])
        /\ todo' = todo \ {k}
    /\ UNCHANGED <<tree, parserVars, aggVars, cliVars, repoURL, pc, managers, run, first>>

\* analyzeRepository, line 156: return a
AnalyzeReturn ==
    /\ pc = "deps" /\ todo = {}
    /\ pc' = "done"
    /\ UNCHANGED <<tree, parserVars, aggVars, cliVars, repoURL, managers, todo, analysis, calls, run, first>>

\* the tool is run a second time over the unmodified checkout
RunAgain ==
    /\ pc = "done" /\ run = 1
    /\ first' = analysis
    /\ run' = 2
    /\ pc' = "detect"
    /\ managers' = <<>> /\ todo' = {} /\ analysis' = EmptyAnalysis /\ calls' = <<>>
    /\ UNCHANGED <<tree, parserVars, aggVars, cliVars, repoURL>>

\* the manifests of the checkouts of Spec
goSingle == Text(<<<<"r", "e", "q", "u", "i", "r", "e", " ", "g", "i", "t", "h", "u", "b", ".", "c", "o", "m", "/", "x", "/", "y", " ", "v", "1", ".", "2", ".", "3">>>>)

goBlock == Text(<<lnOpen, lnAB1, lnA1, lnClose>>)

pomResolvable ==
    Xml(DepBlock(Dep(<<"o", "r", "g", ".", "a">>, <<"b">>, <<"$", "{", "v", "}">>)) \o PropBlock(<<Prop(<<"v">>, <<"9", ".", "9">>)>>))

pomA == Xml(PropBlock(<<Prop(<<"f", "o", "o", ".", "v", "e", "r", "s", "i", "o", "n">>, <<"2", ".", "3">>)>>))

pomB ==
    Xml(DepBlock(Dep(<<"g">>, <<"b">>, <<"1", ".", "0">>)) \o DepBlock(Dep(<<"g">>, <<"a">>, <<"$", "{", "f", "o", "o", ".", "v", "e", "r", "s", "i", "o", "n", "}">>)))

nodeBoth ==
    Json([valid |-> TRUE,
          dependencies |-> [object |-> TRUE, members |-> (<<"l", "i", "b">> :> JString(<<"^", "2">>))],
          devDependencies |-> [object |-> TRUE, members |-> (<<"a">> :> JString(<<"1">>))]])

cargoOne == Decl({[name |-> <<"s", "e", "r", "d", "e">>, version |-> <<"1", ".", "0">>]})

gemOne == Decl({[name |-> <<"r", "a", "i", "l", "s">>, version |-> <<>>]})

gradleTwo ==
    Text(<<<<"i", "m", "p", "l", "e", "m", "e", "n", "t", "a", "t", "i", "o", "n", " ", "'", "g", ":", "b", ":", "2", "'">>, <<"a", "p", "i", " ", "g", "r", "o", "u", "p", ":", " ", "'", "g", "'", ",", " ", "n", "a", "m", "e", ":", " ", "'", "a", "'", ",", " ", "v", "e", "r", "s", "i", "o", "n", ":", " ", "'", "1", "'">>>>)

\* path -> the files the path may hold
MainChoices ==
    (<<<<"g", "o", ".", "m", "o", "d">>>> :> {goSingle, goBlock, Unreadable})
    @@ (<<<<"p", "o", "m", ".", "x", "m", "l">>>> :> {pomResolvable, pomA, pomB})
    @@ (<<<<"m", "o", "d">>, <<"p", "o", "m", ".", "x", "m", "l">>>> :> {pomA, pomB})
    @@ (<<<<"p", "a", "c", "k", "a", "g", "e", ".", "j", "s", "o", "n">>>> :> {nodeBoth, Json(NoJson)})
    @@ (<<<<"C", "a", "r", "g", "o", ".", "t", "o", "m", "l">>>> :> {cargoOne, Decl({})})
    @@ (<<<<"m", "o", "d">>, <<"C", "a", "r", "g", "o", ".", "t", "o", "m", "l">>>> :> {cargoOne, Decl({})})
    @@ (<<<<"y", "a", "r", "n", ".", "l", "o", "c", "k">>>> :> {Text(<<>>)})
    @@ (<<<<"G", "e", "m", "f", "i", "l", "e">>>> :> {gemOne})
    @@ (<<<<"b", "u", "i", "l", "d", ".", "g", "r", "a", "d", "l", "e">>>> :> {gradleTwo})
    @@ (<<<<".", "g", "i", "t">>, <<"g", "o", ".", "m", "o", "d">>>> :> {goSingle})
    @@ (<<<<"R", "E", "A", "D", "M", "E", ".", "m", "d">>>> :> {Text(<<>>)})

RepoURLs == {<<>>, <<"h", "t", "t", "p", "s", ":", "/", "/", "g", "i", "t", "h", "u", "b", ".", "c", "o", "m", "/", "u", "s", "e", "r", "/", "r", "e", "p", "o">>}

Init ==
    /\ CliIdle
    /\ tree \in Checkouts(MainChoices, MaxFiles)
    /\ repoURL \in RepoURLs
    /\ ParserIdle /\ AggIdle
    /\ pc = "detect" /\ managers = <<>> /\ todo = {}
    /\ analysis = EmptyAnalysis /\ calls = <<>> /\ run = 1 /\ first = EmptyAnalysis

Next ==
    \/ Detect
    \/ AnalyzeTypes
    \/ AnalyzeFiles
    \/ AnalyzeEcosystem
    \/ AnalyzeReturn
    \/ RunAgain

Spec == Init /\ [][Next]_vars

(***************************************************************************)
(* The claims.                                                             *)
(***************************************************************************)
(* SpecCli: main from its command line to the call of                      *)
(* detectPackageManagers and the choice of the output, main.go lines       *)
(* 12-101, with removePath and cloneRepository of git.go.                  *)
(***************************************************************************)
\* the most arguments on the command line
MaxArgs == 3

sURL == <<"h", "t", "t", "p", "s", ":", "/", "/", "g", "i", "t", "h", "u", "b", ".", "c", "o", "m", "/", "u", "s", "e", "r", "/", "r", "e", "p", "o">>

sDefaultDir == <<".", "/", "r", "e", "p", "o">>

sTmpDir == <<"/", "t", "m", "p", "/", "m", "y", "r", "e", "p", "o">>

sJson == <<"j", "s", "o", "n">>

sCli == <<"c", "l", "i">>

\* the flags main defines (lines 20-24); skip-clone is the boolean one
flagNames == {<<"r", "e", "p", "o">>, <<"d", "i", "r">>, <<"s", "k", "i", "p", "-", "c", "l", "o", "n", "e">>, <<"o", "u", "t", "p", "u", "t">>, <<"o">>}

\* the values of the flags before flag.Parse (lines 20-24)
flagDefaults ==
    [repoURL |-> <<>>, targetDir |-> sDefaultDir, skipCloneFlag |-> FALSE,
     outputFmt |-> sCli, outputFile |-> <<>>, rest |-> <<>>, err |-> FALSE]

\* strconv.ParseBool, as the flag package applies it to -skip-clone=value
flagBool(v) ==
    IF v \in {<<"1">>, <<"t">>, <<"T">>, <<"t", "r", "u", "e">>, <<"T", "R", "U", "E">>, <<"T", "r", "u", "e">>} THEN "true"
    ELSE IF v \in {<<"0">>, <<"f">>, <<"F">>, <<"f", "a", "l", "s", "e">>, <<"F", "A", "L", "S", "E">>, <<"F", "a", "l", "s", "e">>} THEN "false"
    ELSE "error"

\* flag.Value.Set for the flag name
flagSet(st, name, value) ==
    CASE name = <<"r", "e", "p", "o">> -> [st EXCEPT !.repoURL = value]
      [] name = <<"d", "i", "r">> -> [st EXCEPT !.targetDir = value]
      [] name = <<"o", "u", "t", "p", "u", "t">> -> [st EXCEPT !.outputFmt = value]
      [] name = <<"o">> -> [st EXCEPT !.outputFile = value]
      [] OTHER -> st

RECURSIVE flagParse(_, _)
\* flag.Parse over the arguments as: one flag at a time, until the first
\* argument that is not a flag, a "--" or an error
flagParse(st, as) ==
    IF as = <<>> THEN [st EXCEPT !.rest = <<>>]
    ELSE LET s == Head(as)
         IN  IF Len(s) < 2 \/ s[1] # "-" THEN [st EXCEPT !.rest = as]
             ELSE IF s = <<"-", "-">> THEN [st EXCEPT !.rest = Tail(as)]
             ELSE LET body == IF s[2] = "-" THEN SubSeq(s, 3, Len(s)) ELSE Tail(s)
                      eq == {i \in 2..Len(body) : body[i] = "="}
                      hasValue == eq # {}
                      name == IF hasValue THEN SubSeq(body, 1, Min(eq) - 1) ELSE body
                      value == IF hasValue THEN SubSeq(body, Min(eq) + 1, Len(body)) ELSE <<>>
                  IN  IF body[1] = "-" \/ body[1] = "=" \/ name \notin flagNames
                      THEN [st EXCEPT !.err = TRUE]
                      ELSE IF name = <<"s", "k", "i", "p", "-", "c", "l", "o", "n", "e">>
                      THEN IF ~hasValue
                           THEN flagParse([st EXCEPT !.skipCloneFlag = TRUE], Tail(as))
                           ELSE IF flagBool(value) = "error" THEN [st EXCEPT !.err = TRUE]
                           ELSE flagParse([st EXCEPT !.skipCloneFlag = (flagBool(value) = "true")],
                                          Tail(as))
                      ELSE IF hasValue THEN flagParse(flagSet(st, name, value), Tail(as))
                      ELSE IF Tail(as) = <<>> THEN [st EXCEPT !.err = TRUE]
                      ELSE flagParse(flagSet(st, name, as[2]), Tail(Tail(as)))

\* lines 34-46: the first -o <path> or -o=<path> anywhere in os.Args
outputFileFallback(as) ==
    LET hits == {i \in 1..Len(as) :
                    \/ as[i] = <<"-", "o">> /\ i + 1 <= Len(as)
                    \/ HasPrefix(as[i], <<"-", "o", "=">>)}
    IN  IF hits = {} THEN <<>>
        ELSE IF as[Min(hits)] = <<"-", "o">> THEN as[Min(hits) + 1]
        ELSE SubSeq(as[Min(hits)], 4, Len(as[Min(hits)]))

\* pathExists, discovery.go
pathExists(path, fs) == path # <<>> /\ path \in fs

\* a mutation of removePath without its safety checks
removePathUnguarded(path, fs) == [err |-> FALSE, dirs |-> fs \ {path}]

\* removePath, git.go: the error it returns and the paths that exist after
removePath(path, fs) ==
    IF path = <<>> THEN [err |-> TRUE, dirs |-> fs]
    ELSE IF path = <<"/">> \/ path = <<".">> \/ path = <<".", ".">>
    THEN [err |-> TRUE, dirs |-> fs]
    ELSE [err |-> FALSE, dirs |-> fs \ {path}]

Event(op, path) == [op |-> op, path |-> path]

\* lines 20-46: flag.Parse, the positional URL and the fallback for -o; a
\* command line flag.Parse rejects ends the program with status 2
CliParse ==
    /\ pc = "flags"
    /\ LET st == flagParse(flagDefaults, args)
       IN  IF st.err
           THEN /\ pc' = "exit"
                /\ UNCHANGED <<repoURL, targetDir, skipCloneFlag, outputFmt, outputFile>>
           ELSE /\ repoURL' = IF st.repoURL = <<>> /\ Len(st.rest) > 0 THEN st.rest[1]
                              ELSE st.repoURL
                /\ targetDir' = st.targetDir
                /\ skipCloneFlag' = st.skipCloneFlag
                /\ outputFmt' = st.outputFmt
                /\ outputFile' = IF st.outputFile = <<>> THEN outputFileFallback(args)
                                 ELSE st.outputFile
                /\ pc' = "usage"
    /\ UNCHANGED <<tree, parserVars, aggVars, managers, todo, analysis, calls, run, first,
                   args, dirs, events>>

\* lines 48-51: nothing to analyse
CliUsage ==
    /\ pc = "usage"
    /\ pc' = IF repoURL = <<>> /\ (targetDir = <<>> \/ ~pathExists(targetDir, dirs))
             THEN "exit" ELSE "cleanup"
    /\ UNCHANGED <<tree, parserVars, aggVars, repoURL, managers, todo, analysis, calls, run,
                   first, cliVars>>

\* lines 53-59: make room for the clone
CliRemove ==
    /\ pc = "cleanup"
    /\ IF repoURL # <<>> /\ ~skipCloneFlag
       THEN IF pathExists(targetDir, dirs)
            THEN IF removePath(targetDir, dirs).err
                 THEN pc' = "exit" /\ UNCHANGED <<dirs, events>>
                 ELSE /\ dirs' = removePath(targetDir, dirs).dirs
                      /\ events' = Append(events, Event("remove", targetDir))
                      /\ pc' = "clone"
            ELSE pc' = "clone" /\ UNCHANGED <<dirs, events>>
       ELSE pc' = "detect" /\ UNCHANGED <<dirs, events>>
    /\ UNCHANGED <<tree, parserVars, aggVars, repoURL, managers, todo, analysis, calls, run,
                   first, args, targetDir, skipCloneFlag, outputFmt, outputFile>>

\* lines 60-63: cloneRepository, which git makes succeed or fail
CliClone ==
    /\ pc = "clone"
    /\ \/ /\ dirs' = dirs \cup {targetDir}
          /\ events' = Append(events, Event("clone", targetDir))
          /\ pc' = "detect"
       \/ /\ events' = Append(events, Event("clone failed", targetDir))
          /\ pc' = "exit"
          /\ UNCHANGED dirs
    /\ UNCHANGED <<tree, parserVars, aggVars, repoURL, managers, todo, analysis, calls, run,
                   first, args, targetDir, skipCloneFlag, outputFmt, outputFile>>

\* lines 66-71: detectPackageManagers and analyzeRepository over targetDir
CliAnalyze ==
    /\ pc = "detect"
    /\ events' = Append(events, Event("analyze", targetDir))
    /\ pc' = "output"
    /\ UNCHANGED <<tree, parserVars, aggVars, repoURL, managers, todo, analysis, calls, run,
                   first, args, targetDir, skipCloneFlag, outputFmt, outputFile, dirs>>

\* lines 73-101: JSON to the file, JSON to stdout, or the pretty output
CliOutput ==
    /\ pc = "output"
    /\ events' = Append(events,
                        IF ToLower(outputFmt) = sJson \/ outputFile # <<>>
                        THEN IF outputFile # <<>> THEN Event("json file", outputFile)
                             ELSE Event("json stdout", <<>>)
                        ELSE Event("pretty", <<>>))
    /\ pc' = "done"
    /\ UNCHANGED <<tree, parserVars, aggVars, repoURL, managers, todo, analysis, calls, run,
                   first, args, targetDir, skipCloneFlag, outputFmt, outputFile, dirs>>

\* the words of the command lines of SpecCli
CliWords ==
    {sURL, <<"-", "d", "i", "r">>, sTmpDir, <<".">>, <<"-", "o", "u", "t", "p", "u", "t">>, sJson, <<"-", "s", "k", "i", "p", "-", "c", "l", "o", "n", "e">>, <<"-", "o">>,
     <<"o", "u", "t", ".", "j", "s", "o", "n">>, <<"-", "o", "=", "o", "u", "t", ".", "j", "s", "o", "n">>}

\* "." and "/" always exist; the two target directories may
CliDirs == {{<<".">>, <<"/">>} \cup S : S \in SUBSET {sDefaultDir, sTmpDir}}

InitCli ==
    /\ tree = <<>> /\ ParserIdle /\ AggIdle
    /\ repoURL = <<>> /\ pc = "flags" /\ managers = <<>> /\ todo = {}
    /\ analysis = EmptyAnalysis /\ calls = <<>> /\ run = 0 /\ first = EmptyAnalysis
    /\ args \in SeqUpTo(CliWords, MaxArgs)
    /\ targetDir = <<>> /\ skipCloneFlag = FALSE /\ outputFmt = <<>> /\ outputFile = <<>>
    /\ dirs \in CliDirs
    /\ events = <<>>

NextCli ==
    \/ CliParse
    \/ CliUsage
    \/ CliRemove
    \/ CliClone
    \/ CliAnalyze
    \/ CliOutput

SpecCli == InitCli /\ [][NextCli]_vars

(***************************************************************************)
\* the elements of a list
Elems(list) == {list[i] : i \in 1..Len(list)}

\* strictly ascending in byte order: sorted and free of duplicates
IsAscending(list) == \A i \in 1..(Len(list) - 1) : StrLess(list[i], list[i + 1])

\* the `name version` lines of GoLines, each with the record it declares
C6_Declares ==
    (lnA1 :> <<"a", "@", "v", "1">>) @@ (lnA2c :> <<"a", "@", "v", "2">>) @@ (lnAB1 :> <<"a", "-", "b", "@", "v", "1">>)

\* lines that declare nothing: blank lines and comment lines
C6_Quiet == {lnBlank, lnComment}

\* lines i..j are a require ( ... ) block of `name version` lines, blank
\* lines and comments, and the rest of the file holds no directive
C6_BlockAt(lines, i, j) ==
    /\ i < j /\ lines[i] = lnOpen /\ lines[j] = lnClose
    /\ \A k \in (i + 1)..(j - 1) : lines[k] \in DOMAIN C6_Declares \cup C6_Quiet
    /\ \A k \in 1..Len(lines) : (k < i \/ k > j) => lines[k] \in C6_Quiet \cup {lnModule}

C6_Expected(lines, i, j) ==
    {C6_Declares[lines[k]] : k \in {n \in (i + 1)..(j - 1) : lines[n] \in DOMAIN C6_Declares}}

\* C6: for a go.mod whose require ( ... ) block holds N distinct `name
\* version` lines, with // comments and blank lines anywhere among them,
\* parseGoModDeps returns exactly those N records, each rendered
\* name@version, in ascending byte order.
C6_RequireBlock ==
    (ppc = "ret" /\ ~content.err) =>
        \A i, j \in 1..Len(content.lines) :
            C6_BlockAt(content.lines, i, j) =>
                /\ ~deps.nil
                /\ Elems(deps.items) = C6_Expected(content.lines, i, j)
                /\ Len(deps.items) = Cardinality(C6_Expected(content.lines, i, j))
                /\ IsAscending(deps.items)

\* a block of two declarations, one of them followed by a comment, has been
\* parsed into its two records
C6_Witness ==
    /\ ppc = "ret"
    /\ \E i, j \in 1..Len(content.lines) :
        /\ C6_BlockAt(content.lines, i, j)
        /\ \E k \in (i + 1)..(j - 1) : content.lines[k] = lnA2c
    /\ deps.items = <<<<"a", "-", "b", "@", "v", "1">>, <<"a", "@", "v", "2">>>>

C7_Keys(doc) ==
    (IF doc.dependencies.object THEN DOMAIN doc.dependencies.members ELSE {})
        \cup (IF doc.devDependencies.object THEN DOMAIN doc.devDependencies.members ELSE {})

\* the name of a rendered entry: the text before its first at-sign
C7_NameOf(item) == SubSeq(item, 1, Index(item, <<"@">>) - 1)

\* C7 as stated: the result of parsePackageJSONDeps on a valid manifest
\* holds one entry per key of `dependencies` and `devDependencies`, also
\* for a key that occurs in both maps; an invalid document gives an empty
\* result.
C7_OncePerKey ==
    (ppc = "ret" /\ ~content.err) =>
        IF content.json.valid
        THEN /\ {C7_NameOf(deps.items[i]) : i \in 1..Len(deps.items)} = C7_Keys(content.json)
             /\ Len(deps.items) = Cardinality(C7_Keys(content.json))
        ELSE Len(deps.items) = 0

\* the entries of one map as the specification renders them: name@version,
\* a version that is not a string stringified
C7_Rendered(m) ==
    IF m.object
    THEN {k \o <<"@">> \o (IF m.members[k].kind = "null" THEN <<"<", "n", "i", "l", ">">>
                           ELSE m.members[k].text) : k \in DOMAIN m.members}
    ELSE {}

\* C7, amended: on a valid manifest the result is the union of the
\* name@version entries of `dependencies` and `devDependencies`, each
\* distinct rendered entry once and in ascending order, so that a key with
\* the same version in both maps is rendered once and a key with two
\* different versions twice; an invalid document gives an empty result.
C7_UnionOfEntries ==
    (ppc = "ret" /\ ~content.err) =>
        IF content.json.valid
        THEN /\ Elems(deps.items) = C7_Rendered(content.json.dependencies)
                                        \cup C7_Rendered(content.json.devDependencies)
             /\ IsAscending(deps.items)
        ELSE Len(deps.items) = 0

\* a manifest with the key lib in both maps, once with the same version as
\* another key's and once with a different one, has been parsed
C7_Witness ==
    /\ ppc = "ret" /\ content.json.valid
    /\ content.json.dependencies.object /\ content.json.devDependencies.object
    /\ DOMAIN content.json.dependencies.members = JsonKeys
    /\ <<"l", "i", "b">> \in DOMAIN content.json.devDependencies.members
    /\ deps.items = <<<<"a", "@", "1">>, <<"l", "i", "b", "@", "1">>, <<"l", "i", "b", "@", "^", "2">>>>

\* the version part of a rendered Maven dependency: the text after the
\* at-sign
C4_VersionPart(item) ==
    IF Index(item, <<"@">>) = 0 THEN <<>>
    ELSE SubSeq(item, Index(item, <<"@">>) + 1, Len(item))

\* C4: every dependency block whose version holds a ${...} placeholder is
\* rendered by parsePomDeps as bare group:artifact (no property table is
\* consulted, so no placeholder has a matching property), and no returned
\* string has "${" in its version part.
C4_PlaceholderOmitted ==
    (ppc = "ret" /\ ~content.err) =>
        /\ \A d \in PomDepChoices :
            (/\ Contains(content.xml, DepBlock(d))
             /\ Contains(d.v, sPlaceholder)
             /\ (d.g # <<>> \/ d.a # <<>>))
                => (d.g \o <<":">> \o d.a) \in Elems(deps.items)
        /\ \A i \in 1..Len(deps.items) :
            ~Contains(C4_VersionPart(deps.items[i]), sPlaceholder)

\* a pom.xml with a placeholder version and a literal version has been
\* parsed: the first is rendered bare, the second with its version
C4_Witness ==
    /\ ppc = "ret"
    /\ content = Xml(DepBlock([g |-> <<"o", "r", "g", ".", "a">>, a |-> <<"b">>, v |-> <<"$", "{", "f", "o", "o", ".", "v", "e", "r", "s", "i", "o", "n", "}">>])
                      \o DepBlock([g |-> <<"o", "r", "g", ".", "a">>, a |-> <<"b">>, v |-> <<"1", ".", "0">>]))
    /\ deps.items = <<<<"o", "r", "g", ".", "a", ":", "b">>, <<"o", "r", "g", ".", "a", ":", "b", "@", "1", ".", "0">>>>


\* what the i-th entry of the walk defines: the properties and the managed
\* versions of a pom.xml the aggregator reads, nothing for any other entry
C5_Props(i) ==
    LET p == walkOrder(tree)[i]
    IN  IF aggregateReads(p, tree[p]) THEN parsePomProperties(tree[p]) ELSE <<>>

C5_Managed(i) ==
    LET p == walkOrder(tree)[i]
    IN  IF aggregateReads(p, tree[p]) THEN parsePomDependencyManagement(tree[p]) ELSE <<>>

\* the table holds the keys the visited entries define, each with the value
\* of the earliest visited entry that defines it
C5_FirstWins(table, Defs(_)) ==
    /\ DOMAIN table = UNION {DOMAIN Defs(i) : i \in 1..walked}
    /\ \A k \in DOMAIN table :
        table[k] = Defs(Min({i \in 1..walked : k \in DOMAIN Defs(i)}))[k]

\* C5: at every point of the walk of aggregatePomData, and so after it,
\* each key of the property table and of the dependency-management table
\* holds the value of the earliest-visited file that defines it; a later
\* file neither overwrites nor removes an entry.
C5_FirstWriterWins ==
    pc = "aggregate" =>
        /\ C5_FirstWins(allProps, C5_Props)
        /\ C5_FirstWins(allDM, C5_Managed)

\* the walk is over, and two of the visited files disagree on a property
\* and two on a managed version
C5_Witness ==
    /\ pc = "aggregate" /\ walked = Len(walkOrder(tree))
    /\ \E i, j \in 1..walked :
        /\ i < j
        /\ <<"x">> \in DOMAIN C5_Props(i) \cap DOMAIN C5_Props(j)
        /\ C5_Props(i)[<<"x">>] # C5_Props(j)[<<"x">>]
        /\ allProps[<<"x">>] = C5_Props(i)[<<"x">>]
    /\ \E i, j \in 1..walked :
        /\ i < j
        /\ <<"g", ":", "a">> \in DOMAIN C5_Managed(i) \cap DOMAIN C5_Managed(j)
        /\ C5_Managed(i)[<<"g", ":", "a">>] # C5_Managed(j)[<<"g", ":", "a">>]
        /\ allDM[<<"g", ":", "a">>] = C5_Managed(i)[<<"g", ":", "a">>]


(***************************************************************************)
(* Claims about analyzeRepository, checked under Spec.                     *)
(***************************************************************************)
\* the dependencies of an Analysis Result as the JSON shows them: ecosystem
\* -> file -> the list of rendered dependencies
C10_Rendered(depsMap) ==
    [e \in DOMAIN depsMap |-> [f \in DOMAIN depsMap[e] |-> depsMap[e][f].items]]

\* go.mod with `require github.com/x/y v1.2.3` and one top-level pom.xml
\* with org.a / b at ${v} and the property v = 9.9
C10_Tree == (<<<<"g", "o", ".", "m", "o", "d">>>> :> goSingle) @@ (<<<<"p", "o", "m", ".", "x", "m", "l">>>> :> pomResolvable)

C10_Expected ==
    (<<"G", "o">> :> (<<"g", "o", ".", "m", "o", "d">> :> <<<<"g", "i", "t", "h", "u", "b", ".", "c", "o", "m", "/", "x", "/", "y", "@", "v", "1", ".", "2", ".", "3">>>>))
    @@ (<<"M", "a", "v", "e", "n">> :> (<<"p", "o", "m", ".", "x", "m", "l">> :> <<<<"o", "r", "g", ".", "a", ":", "b", "@", "9", ".", "9">>>>))

\* C10: for the tree of go.mod (require github.com/x/y v1.2.3) and one
\* top-level pom.xml (org.a / b at ${v}, property v = 9.9), analyzeRepository
\* yields dependencies exactly {"Go": {"go.mod": ["github.com/x/y@v1.2.3"]},
\* "Maven": {"pom.xml": ["org.a:b@9.9"]}}.
C10_AsStated ==
    (pc = "done" /\ tree = C10_Tree) =>
        C10_Rendered(analysis.Dependencies) = C10_Expected

\* B's list holds the dependency g / a rendered with the version 2.3
C1_ResolvedIn(depsMap, rel) ==
    /\ <<"M", "a", "v", "e", "n">> \in DOMAIN depsMap
    /\ rel \in DOMAIN depsMap[<<"M", "a", "v", "e", "n">>]
    /\ <<"g", ":", "a", "@", "2", ".", "3">> \in Elems(depsMap[<<"M", "a", "v", "e", "n">>][rel].items)

\* C1: when one pom.xml (A) declares the property foo.version = 2.3 and a
\* different pom.xml (B) declares a dependency whose version is
\* ${foo.version}, the list analyzeRepository records for B holds that
\* dependency rendered group:artifact@2.3.
C1_AsStated ==
    pc = "done" =>
        \A pa, pb \in DOMAIN tree :
            (pa # pb /\ tree[pa] = pomA /\ tree[pb] = pomB) =>
                C1_ResolvedIn(analysis.Dependencies, JoinPath(pb))

\* the places of the calls of fn among the calls analyzeRepository made
C2_CallsOf(fn) == {i \in 1..Len(calls) : calls[i].fn = fn}

\* C2: whenever managers holds a Maven file, aggregatePomData runs exactly
\* once, before the first parsePomDeps call; with no Maven file it does not
\* run at all.
C2_AsStated ==
    pc = "done" =>
        IF kMaven \in DOMAIN managers
        THEN /\ Cardinality(C2_CallsOf("aggregatePomData")) = 1
             /\ \A i \in C2_CallsOf("aggregatePomData"), j \in C2_CallsOf("parsePomDeps") : i < j
        ELSE C2_CallsOf("aggregatePomData") = {}

\* C3: for every ecosystem tag k and every path p of managers[k] (Rust
\* files and files that yield no dependency included), the result of
\* analyzeRepository has the key relative(p) under Dependencies[niceName(k)].
C3_AsStated ==
    pc = "done" =>
        \A k \in DOMAIN managers : \A i \in 1..Len(managers[k]) :
            /\ niceName(k) \in DOMAIN analysis.Dependencies
            /\ Rel(Root, managers[k][i]) \in DOMAIN analysis.Dependencies[niceName(k)]

\* C8: detectPackageManagers followed by analyzeRepository, run twice over
\* the same unmodified directory with the same arguments, yields the same
\* Analysis Result (repo, type, dependencies, files) both times, whatever
\* order each range over a map takes.
C8_Idempotent == (pc = "done" /\ run = 2) => analysis = first

\* the second run is over, on a checkout of three ecosystems whose files
\* the ranges may yield in several orders
C8_Witness ==
    /\ pc = "done" /\ run = 2
    /\ Cardinality(DOMAIN managers) = 3
    /\ Len(analysis.Files.items) = 3
    /\ analysis = first

\* all the lists of depsMap taken one ecosystem at a time
C9_PerFile(depsMap) ==
    UNION {{depsMap[e][f].items : f \in DOMAIN depsMap[e]} : e \in DOMAIN depsMap}

\* C9: in every Analysis Result analyzeRepository returns, the Type list,
\* the Files list and every per-file dependency list are in ascending
\* lexicographic order and hold no entry twice, for every mapping and
\* every order of discovery.
C9_SortedNoDuplicates ==
    pc = "done" =>
        /\ IsAscending(analysis.Type.items)
        /\ IsAscending(analysis.Files.items)
        /\ \A list \in C9_PerFile(analysis.Dependencies) : IsAscending(list)

\* a result of two ecosystems and two files, one of them with two
\* dependencies
C9_Witness ==
    /\ pc = "done"
    /\ Len(analysis.Type.items) >= 2
    /\ Len(analysis.Files.items) >= 2
    /\ \E list \in C9_PerFile(analysis.Dependencies) : Len(list) >= 2


(***************************************************************************)
(* Further claims about aggregatePomData, checked under SpecAgg.           *)
(***************************************************************************)
\* the entry cannot be read, reports a walk error, or holds neither a
\* <properties> nor a <dependencyManagement> element
C12_Offending(file) ==
    \/ file.walkErr
    \/ file.err
    \/ \A i \in 1..Len(file.xml) :
        file.xml[i] # Open(tProperties) /\ file.xml[i] # Open(tDependencyManagement)

\* after the step the table holds every key of defs, with the value of
\* defs where the table did not hold the key before
C12_Contributed(before, after, defs) ==
    \A k \in DOMAIN defs :
        /\ k \in DOMAIN after
        /\ k \notin DOMAIN before => after[k] = defs[k]

\* C12: in aggregatePomData a pom.xml that cannot be read, a walk entry
\* that reports an error, or a file without a <properties> or
\* <dependencyManagement> shape adds no entry to either table and does not
\* stop the walk: every step of the walk moves on to the next entry, and
\* every readable pom.xml visited after it still contributes its entries.
C12_ErrorTolerant ==
    [][pc = "aggregate" =>
        LET p == walkOrder(tree)[walked + 1]
        IN  /\ walked' = walked + 1
            /\ C12_Offending(tree[p]) => (allProps' = allProps /\ allDM' = allDM)
            /\ (~C12_Offending(tree[p]) /\ HasSuffix(JoinPath(p), sPomXml)) =>
                /\ C12_Contributed(allProps, allProps', parsePomProperties(tree[p]))
                /\ C12_Contributed(allDM, allDM', parsePomDependencyManagement(tree[p]))]_vars

\* the walk is over; an unreadable file and an entry with a walk error
\* were visited before a pom.xml whose property x is in the table
C12_Witness ==
    /\ pc = "aggregate" /\ walked = Len(walkOrder(tree))
    /\ \E i, j, l \in 1..walked :
        /\ i < l /\ j < l
        /\ tree[walkOrder(tree)[i]] = Unreadable
        /\ tree[walkOrder(tree)[j]] = WalkError
        /\ <<"x">> \in DOMAIN C5_Props(l)
        /\ <<"x">> \in DOMAIN allProps
        /\ allProps[<<"x">>] = C5_Props(l)[<<"x">>]

\* the file is named pom.xml and lies under no .git directory
C14_Manifest(p) ==
    /\ p[Len(p)] = sPomXml
    /\ \A i \in 1..(Len(p) - 1) : p[i] # <<".", "g", "i", "t">>

\* the keys the manifests visited so far define
C14_ManifestKeys(Defs(_)) ==
    UNION {DOMAIN Defs(tree[walkOrder(tree)[i]]) :
            i \in {j \in 1..walked : C14_Manifest(walkOrder(tree)[j])}}

\* C14: the files whose content contributes to the tables of the
\* aggregator are exactly the files named pom.xml that do not lie beneath a
\* .git directory; no other file (xpom.xml, .git/pom.xml) adds an entry.
C14_AsStated ==
    pc = "aggregate" =>
        /\ DOMAIN allProps = C14_ManifestKeys(parsePomProperties)
        /\ DOMAIN allDM = C14_ManifestKeys(parsePomDependencyManagement)


(***************************************************************************)
(* Further claims about parsePomDeps, checked under SpecPom.               *)
(***************************************************************************)
\* the text of item before its first ":"
C13_GroupPart(item) ==
    IF Index(item, <<":">>) = 0 THEN item ELSE SubSeq(item, 1, Index(item, <<":">>) - 1)

\* the text of item between its first ":" and the "@" of the version
C13_ArtifactPart(item) ==
    LET rest == IF Index(item, <<":">>) = 0 THEN <<>>
                ELSE SubSeq(item, Index(item, <<":">>) + 1, Len(item))
    IN  IF Index(rest, <<"@">>) = 0 THEN rest ELSE SubSeq(rest, 1, Index(rest, <<"@">>) - 1)

\* C13: parsePomDeps skips every <dependency> block that lacks a <groupId>
\* or lacks an <artifactId>, as the dependency-management extraction does,
\* so every returned string has a non-empty group and a non-empty artifact
\* on either side of the ':'.
C13_AsStated ==
    ppc = "ret" =>
        /\ \A d \in PomDepChoices :
            (~content.err /\ content.xml = DepBlock(d) /\ (d.g = <<>> \/ d.a = <<>>))
                => deps.items = <<>>
        /\ \A i \in 1..Len(deps.items) :
            /\ C13_GroupPart(deps.items[i]) # <<>>
            /\ C13_ArtifactPart(deps.items[i]) # <<>>


\* C15: parsePomDeps renders a dependency block with no <version> tag as
\* bare group:artifact whatever the dependency-management table holds for
\* it, and what it returns for a file does not depend on the two tables of
\* the aggregator: every version it renders is written in a block of the
\* file.
C15_TablesIgnored ==
    (ppc = "ret" /\ ~content.err) =>
        /\ \A d \in PomDepChoices :
            (/\ Contains(content.xml, DepBlock(d))
             /\ d.v = <<>> /\ d.g # <<>> /\ d.a # <<>>)
                => GroupArtifact(d.g, d.a) \in Elems(deps.items)
        /\ \A i \in 1..Len(deps.items) :
            C4_VersionPart(deps.items[i]) # <<>> =>
                \E d \in PomDepChoices :
                    /\ Contains(content.xml, DepBlock(d))
                    /\ Len(Fields(d.v)) = 1
                    /\ deps.items[i] = NameAtVersion(GroupArtifact(d.g, d.a), Fields(d.v)[1])

\* the table holds a version for org.a:b, and the file's only block, org.a
\* / b without a version, is rendered bare
C15_Witness ==
    /\ ppc = "ret"
    /\ <<"o", "r", "g", ".", "a", ":", "b">> \in DOMAIN allDM
    /\ content = Xml(DepBlock([g |-> <<"o", "r", "g", ".", "a">>, a |-> <<"b">>, v |-> <<>>]))
    /\ deps.items = <<<<"o", "r", "g", ".", "a", ":", "b">>>>


(***************************************************************************)
(* Claims about the replace directives of go.mod, checked under            *)
(* SpecGoReplace.                                                          *)
(***************************************************************************)
\* the replace lines of GoReplaceLines with two module tokens, each with
\* the string it is to be rendered as
C16_Renders ==
    (lnReplArrow :> <<"a", " ", "=", ">", " ", "b">>) @@ (lnReplBare :> <<"a", " ", "=", ">", " ", "b">>) @@ (lnReplVer :> <<"c", " ", "=", ">", " ", "d">>)

\* line i lies outside every require block: no `require (` before it is
\* still open
C16_TopLevel(lines, i) ==
    \A j \in 1..(i - 1) :
        lines[j] = lnOpen => \E k \in (j + 1)..(i - 1) : lines[k] = lnClose

\* the returned strings that are rendered replace directives
C16_Replaces == {item \in Elems(deps.items) : Contains(item, <<" ", "=", ">", " ">>)}

\* C16 as stated: parseGoModDeps renders every replace directive, in both
\* forms `replace old => new` and `replace old new`, as "old => new" from
\* the first token of each side; a replace line with fewer than two module
\* tokens contributes nothing.
C16_AsStated ==
    (ppc = "ret" /\ ~content.err) =>
        C16_Replaces =
            {C16_Renders[content.lines[i]] :
                i \in {n \in 1..Len(content.lines) : content.lines[n] \in DOMAIN C16_Renders}}

\* C16 amended: the same of every replace directive outside a require
\* ( ... ) block; inside a block the line is a member of the block.
C16_TopLevelReplaces ==
    (ppc = "ret" /\ ~content.err) =>
        C16_Replaces =
            {C16_Renders[content.lines[i]] :
                i \in {n \in 1..Len(content.lines) :
                        /\ content.lines[n] \in DOMAIN C16_Renders
                        /\ C16_TopLevel(content.lines, n)}}

\* a replace in the bare form, one with
\* versions on both sides and one with a single token have been parsed
C16_Witness ==
    /\ ppc = "ret"
    /\ content.lines = <<lnReplBare, lnReplVer, lnReplShort>>
    /\ deps.items = <<<<"a", " ", "=", ">", " ", "b">>, <<"c", " ", "=", ">", " ", "d">>>>


(***************************************************************************)
(* The block state of parseGoModDeps, checked under SpecGoMod.             *)
(***************************************************************************)
\* line i lies after a `require (` line and before the next line that
\* starts with ")"
C20_Member(lines, i) ==
    /\ lines[i] # lnClose
    /\ \E j \in 1..(i - 1) :
        /\ lines[j] = lnOpen
        /\ \A k \in (j + 1)..(i - 1) : lines[k] # lnClose

\* the lines of GoLines that have two fields once the comment is dropped,
\* other than `require (`, each with its first field @ its second
C20_FieldsOf ==
    (lnA1 :> <<"a", "@", "v", "1">>) @@ (lnA2c :> <<"a", "@", "v", "2">>) @@ (lnAB1 :> <<"a", "-", "b", "@", "v", "1">>)
    @@ (lnReqC :> <<"r", "e", "q", "u", "i", "r", "e", "@", "c">>) @@ (lnReplArrow :> <<"r", "e", "p", "l", "a", "c", "e", "@", "a">>)
    @@ (lnReplBare :> <<"r", "e", "p", "l", "a", "c", "e", "@", "a">>) @@ (lnModule :> <<"m", "o", "d", "u", "l", "e", "@", "m">>)

\* the same with `require (`, whose fields are "require" and "("
C20_FieldsOfAll == C20_FieldsOf @@ (lnOpen :> <<"r", "e", "q", "u", "i", "r", "e", "@", "(">>)

\* what the `require ` and `replace ` lines of GoLines contribute at top level
C20_Directive ==
    (lnReqC :> <<"c", "@", "v", "3">>) @@ (lnReplArrow :> <<"a", " ", "=", ">", " ", "b">>) @@ (lnReplBare :> <<"a", " ", "=", ">", " ", "b">>)

\* the records of a file whose block members are rendered by InBlock and
\* whose other lines by C20_Directive
C20_Records(lines, InBlock) ==
    {InBlock[lines[i]] :
        i \in {n \in 1..Len(lines) : C20_Member(lines, n) /\ lines[n] \in DOMAIN InBlock}}
    \cup {C20_Directive[lines[i]] :
        i \in {n \in 1..Len(lines) : ~C20_Member(lines, n) /\ lines[n] \in DOMAIN C20_Directive}}

\* C20 as stated: a line is a require-block member exactly when it lies
\* after a line starting with `require (` and before the next line starting
\* with `)`; every member with at least two fields is recorded as
\* field1@field2, even if it begins with `require` or `replace`; a block that
\* is not closed extends to the end of the file; after `)` only `require `
\* and `replace ` lines contribute.
C20_AsStated ==
    (ppc = "ret" /\ ~content.err) =>
        Elems(deps.items) = C20_Records(content.lines, C20_FieldsOfAll)

\* C20 amended: the same, except that a line starting with `require (`
\* inside a block is not recorded: it opens the block again.
C20_BlockState ==
    (ppc = "ret" /\ ~content.err) =>
        Elems(deps.items) = C20_Records(content.lines, C20_FieldsOf)

\* `require c v3` has been parsed inside a block and again after its `)`:
\* once as a member, once as a directive
C20_Witness ==
    /\ ppc = "ret"
    /\ content.lines = <<lnOpen, lnReqC, lnClose, lnReqC>>
    /\ deps.items = <<<<"c", "@", "v", "3">>, <<"r", "e", "q", "u", "i", "r", "e", "@", "c">>>>


(***************************************************************************)
(* Further claims about analyzeRepository, checked under Spec.             *)
(***************************************************************************)
\* the paths of ecosystem k whose list analyzeRepository records: all of
\* them, but for rust the ones with a dependency
C17_Recorded(k) ==
    {managers[k][i] : i \in 1..Len(managers[k])}
        \ (IF k = kRust
           THEN {p \in {managers[k][i] : i \in 1..Len(managers[k])} :
                    parsed(k, p, fileAt(tree, p)).items = <<>>}
           ELSE {})

\* the dependencies as a function of the checkout and of managers alone:
\* each recorded file with what its parser returns for it
C17_ByFile ==
    LET KeyOf(e) == CHOOSE k \in DOMAIN managers : niceName(k) = e
        PathOf(k, f) == CHOOSE p \in C17_Recorded(k) : Rel(Root, p) = f
    IN  [e \in {niceName(k) : k \in DOMAIN managers} |->
            [f \in {Rel(Root, p) : p \in C17_Recorded(KeyOf(e))} |->
                parsed(KeyOf(e), PathOf(KeyOf(e), f), fileAt(tree, PathOf(KeyOf(e), f)))]]

\* the paths of ecosystem k in the order a permutation of their places gives
C17_Permuted(k, order) == [i \in 1..Len(managers[k]) |-> managers[k][order[i]]]

\* C17: the result analyzeRepository builds is the same for every order in
\* which the ecosystems and the files within them are processed, and
\* recording the lists of one ecosystem's files never changes or removes
\* an entry recorded before, in the same or in another ecosystem.
C17_OrderIndependent ==
    [][/\ \A e \in DOMAIN analysis.Dependencies : \A f \in DOMAIN analysis.Dependencies[e] :
            (pc = "deps" /\ pc' = "deps") =>
                /\ e \in DOMAIN analysis'.Dependencies
                /\ f \in DOMAIN analysis'.Dependencies[e]
                /\ analysis'.Dependencies[e][f] = analysis.Dependencies[e][f]
       /\ pc' = "done" =>
            /\ analysis'.Dependencies = C17_ByFile
            /\ \A k \in DOMAIN managers : \A order \in Orders(1..Len(managers[k])) :
                perFileOf(tree, k, C17_Permuted(k, order)) = perFileOf(tree, k, managers[k])
      ]_vars

\* the result of a checkout of two ecosystems, one of them with two
\* files, is complete
C17_Witness ==
    /\ pc = "done"
    /\ Cardinality(DOMAIN managers) = 2
    /\ \E k \in DOMAIN managers : Len(managers[k]) = 2
    /\ analysis.Dependencies = C17_ByFile
    /\ \E e \in DOMAIN analysis.Dependencies : Cardinality(DOMAIN analysis.Dependencies[e]) = 2


\* the value recorded for a readable manifest that declares no dependency:
\* an empty, non-nil slice, [] in the JSON
C19_EmptyList == Slice(<<>>)

\* C19: an unreadable manifest, or a package.json that is not valid JSON,
\* is recorded in the Analysis Result with the same empty-list value as a
\* readable manifest without dependencies (an empty array, not a null or
\* absent list), for every parser analyzeRepository dispatches.
C19_AsStated ==
    pc = "done" =>
        \A k \in DOMAIN managers : \A i \in 1..Len(managers[k]) :
            LET p == managers[k][i]
                file == fileAt(tree, p)
            IN  (file.err \/ (k = kNpm /\ ~file.json.valid)) =>
                    /\ niceName(k) \in DOMAIN analysis.Dependencies
                    /\ Rel(Root, p) \in DOMAIN analysis.Dependencies[niceName(k)]
                    /\ analysis.Dependencies[niceName(k)][Rel(Root, p)] = C19_EmptyList


(***************************************************************************)
(* C11: the command-line forms of the README.                              *)
(***************************************************************************)
\* the command lines "URL -dir <path>" and "URL -output json"
C11_Documented ==
    /\ Len(args) = 3
    /\ args[1] = sURL
    /\ \/ args[2] = <<"-", "d", "i", "r">> /\ args[3] = sTmpDir
       \/ args[2] = <<"-", "o", "u", "t", "p", "u", "t">> /\ args[3] = sJson

\* what flag.Parse and line 28-30 give when the options precede the URL
C11_Preceding == flagParse(flagDefaults, <<args[2], args[3], args[1]>>)

\* the path of the first event of the kind op, <<>> when there is none
C11_PathOf(op) ==
    LET hits == {i \in 1..Len(events) : events[i].op = op}
    IN  IF hits = {} THEN <<>> ELSE events[Min(hits)].path

\* C11: when the URL is the first positional argument and -dir <path> or
\* -output json follow it, they take effect exactly as if they preceded the
\* URL: the directory removed and cloned into is <path>, and the output is
\* JSON.
C11_AsStated ==
    (C11_Documented /\ pc = "done") =>
        /\ targetDir = C11_Preceding.targetDir
        /\ outputFmt = C11_Preceding.outputFmt
        /\ C11_PathOf("clone") = C11_Preceding.targetDir
        /\ (sDefaultDir \in dirs /\ C11_PathOf("clone") # sDefaultDir
                => C11_PathOf("remove") # sDefaultDir)
        /\ (args[2] = <<"-", "o", "u", "t", "p", "u", "t">> => events[Len(events)].op = "json stdout")

(***************************************************************************)
(* C18: the guard of the destructive cleanup.                              *)
(***************************************************************************)
C18_Ops(es) == {es[i].op : i \in 1..Len(es)}

\* the paths removePath refuses
C18_Unsafe == {<<>>, <<"/">>, <<".">>, <<".", ".">>}

\* C18: the target directory is removed only when a repository URL was
\* supplied, skip-clone is not set and the directory exists; removal always
\* precedes the clone; detection and analysis run only if the clone did not
\* fail; and removePath returns an error without deleting anything for the
\* paths "", "/", "." and "..".
C18_CleanupGuard ==
    [][/\ (~(dirs \subseteq dirs') \/ "remove" \in C18_Ops(events') \ C18_Ops(events))
            => /\ repoURL # <<>> /\ ~skipCloneFlag /\ targetDir \in dirs
               /\ dirs' = dirs \ {targetDir}
               /\ events' = Append(events, Event("remove", targetDir))
               /\ "clone" \notin C18_Ops(events)
       /\ \A i \in 1..Len(events'), j \in 1..Len(events') :
            (events'[i].op = "remove" /\ events'[j].op \in {"clone", "clone failed"}) => i < j
       /\ "analyze" \in C18_Ops(events') => "clone failed" \notin C18_Ops(events')
       /\ ("analyze" \in C18_Ops(events') /\ repoURL' # <<>> /\ ~skipCloneFlag')
            => "clone" \in C18_Ops(events')
       /\ \A p \in C18_Unsafe :
            removePath(p, dirs).err /\ removePath(p, dirs).dirs = dirs
       /\ \A p \in C18_Unsafe : p \in dirs => p \in dirs'
      ]_vars

\* the existing target directory was removed, the clone made and the
\* analysis run
C18_Witness ==
    /\ pc = "done"
    /\ Len(events) >= 3
    /\ events[1] = Event("remove", targetDir)
    /\ events[2] = Event("clone", targetDir)
    /\ events[3] = Event("analyze", targetDir)


(***************************************************************************)
(* C21: duplicate keys and several <properties> blocks in one pom.xml.     *)
(***************************************************************************)
\* what stands between the first <properties> and the first </properties>
\* after it; nothing when the file has no such block
C21_FirstBlock(tokens) ==
    LET opens == {i \in 1..Len(tokens) : tokens[i] = Open(tProperties)}
        closes == {j \in 1..Len(tokens) :
                      tokens[j] = Close(tProperties) /\ \E i \in opens : i < j}
    IN  IF closes = {} THEN <<>> ELSE SubSeq(tokens, Min(opens) + 1, Min(closes) - 1)

\* the definitions <k>v</k> of a block, in the order they are written
C21_Defs(block) ==
    [n \in 1..(Len(block) \div 3) |-> Prop(block[3 * n - 2].s, block[3 * n - 1].s)]

\* the in-block definitions of the i-th entry of the walk
C21_DefsOf(i) ==
    LET p == walkOrder(tree)[i]
    IN  IF aggregateReads(p, tree[p]) /\ ~tree[p].err
        THEN C21_Defs(C21_FirstBlock(tree[p].xml)) ELSE <<>>

C21_KeysOf(i) == {C21_DefsOf(i)[n].k : n \in 1..Len(C21_DefsOf(i))}

\* the value of the last definition of k among the definitions defs
C21_LastOf(defs, k) ==
    defs[CHOOSE n \in 1..Len(defs) :
            defs[n].k = k /\ \A m \in 1..Len(defs) : defs[m].k = k => m <= n].v

\* C21: within one pom.xml parsePomProperties reads only the first
\* <properties> block and keeps, for a key the block defines more than once,
\* the last value; so the value aggregatePomData stores for a key first
\* defined by a file is that file's last in-block definition, and a key
\* defined only outside the first block of every file is not stored.
C21_LastInFirstBlock ==
    pc = "aggregate" =>
        /\ \A i \in 1..walked : \A k \in C21_KeysOf(i) :
            (\A j \in 1..(i - 1) : k \notin C21_KeysOf(j))
                => /\ k \in DOMAIN allProps
                   /\ allProps[k] = C21_LastOf(C21_DefsOf(i), k)
        /\ DOMAIN allProps = UNION {C21_KeysOf(i) : i \in 1..walked}

\* the walk is over; the first file read defines x twice in its first
\* block and y in a second block; the table holds the last value of x and
\* no y
C21_Witness ==
    /\ pc = "aggregate" /\ walked = Len(walkOrder(tree)) /\ walked >= 1
    /\ tree[walkOrder(tree)[1]]
         = Xml(PropBlock(<<Prop(<<"x">>, <<"1">>), Prop(<<"x">>, <<"2">>)>>)
                 \o PropBlock(<<Prop(<<"y">>, <<"2">>)>>))
    /\ allProps = (<<"x">> :> <<"2">>)

====
